---------------------------- MODULE Spec2Model ----------------------------
(***************************************************************************)
(* A model of AZ::JsonSerializationUtils (AtomCore/Serialization/Json/     *)
(* Utils.cpp): the load path of the typed-object JSON persistence layer.   *)
(*                                                                         *)
(* One load call (LoadObjectFromStreamByType or LoadAnyObjectFromStream)   *)
(* is a sequential process whose position is pc.  Texts (error messages,   *)
(* the diagnostics buffer) are sequences of string pieces in the order the *)
(* code concatenates or formats them.                                      *)
(***************************************************************************)
EXTENDS Integers, Sequences, FiniteSets, TLC

\* Bound of the model: the number of events the object mapper reports in one load.
MaxEvents == 2

(***************************************************************************)
(* Constants of Utils.cpp                                                  *)
(***************************************************************************)
FileTypeTag == "Type"
FileType == "JsonSerialization"
ClassNameTag == "ClassName"
ClassDataTag == "ClassData"
MaxFileSize == 1024 * 1024
UuidMessage == "No part of the string could be interpreted as a uuid."

(***************************************************************************)
(* Strings and case-insensitive comparison                                 *)
(***************************************************************************)
Garbage == "<garbage>"
Strings == {"JsonSerialization", "jsonserialization", "Foo", "foo", "Bar", "Baz", Garbage}

ToLower(s) ==
    CASE s = "JsonSerialization" -> "jsonserialization"
      [] s = "Foo" -> "foo"
      [] s = "Bar" -> "bar"
      [] s = "Baz" -> "baz"
      [] OTHER -> s

\* azstricmp: 0 when the strings are equal ignoring case; the callers only
\* test the result against 0, so every non-zero result is modelled as 1.
azstricmp(a, b) == IF ToLower(a) = ToLower(b) THEN 0 ELSE 1

(***************************************************************************)
(* The document: its root value and, of a root object, the header members. *)
(* A member is a JSON value or is absent (FindMember returns MemberEnd).   *)
(***************************************************************************)
Absent == [kind |-> "absent", s |-> ""]
Str(s) == [kind |-> "string", s |-> s]
Num == [kind |-> "number", s |-> ""]
Obj == [kind |-> "object", s |-> ""]
Arr == [kind |-> "array", s |-> ""]
Null == [kind |-> "null", s |-> ""]

IsString(v) == v.kind = "string"
IsObject(v) == v.kind = "object"
MemberEnd == Absent
FindMember(doc, tag) == doc[tag]

TypeValues == {Absent, Num, Str("JsonSerialization"), Str("jsonserialization"), Str("Foo")}
ClassNameValues == {Absent, Num, Str("Foo"), Str("foo"), Str("Bar"), Str("Baz")}
ClassDataValues == {Absent, Obj, Arr, Null, Num}
ObjectDocuments ==
    [root : {"object"}, Type : TypeValues, ClassName : ClassNameValues,
     ClassData : ClassDataValues]
\* A well-formed text whose root is no object ("[]", "1").  FindMember on
\* such a root is an invalid use of the DOM: a build that does not stop
\* there reads the storage of the value as a table of members, and the
\* members of these records are what it finds: nothing, or by chance
\* (an array of strings laid out like members) a header.
NonObjectDocuments ==
    {[root |-> "array", Type |-> Absent, ClassName |-> Absent,
      ClassData |-> Absent],
     [root |-> "array", Type |-> Str("JsonSerialization"),
      ClassName |-> Str("Foo"), ClassData |-> Obj],
     [root |-> "number", Type |-> Absent, ClassName |-> Absent,
      ClassData |-> Absent]}
Documents == ObjectDocuments \cup NonObjectDocuments
NoDocument == [root |-> "object", Type |-> Absent, ClassName |-> Absent,
               ClassData |-> Absent]
\* jsonDocument.IsObject()
IsObjectRoot(doc) == doc.root = "object"

(***************************************************************************)
(* Results: AZ::Outcome<value, AZStd::string>                              *)
(***************************************************************************)
NoValue == "none"
Success(v) == [set |-> TRUE, ok |-> TRUE, err |-> <<>>, value |-> v]
Failure(e) == [set |-> TRUE, ok |-> FALSE, err |-> e, value |-> NoValue]
NoResult == [set |-> FALSE, ok |-> FALSE, err |-> <<>>, value |-> NoValue]

(***************************************************************************)
(* JsonSerializationResult::ResultCode: a processing status and an outcome *)
(***************************************************************************)
Outcomes == {"Success", "DefaultsUsed", "PartialDefaults", "Skipped", "Unsupported"}
ResultCode(p, o) == [processing |-> p, outcome |-> o]
ResultCodes == {ResultCode("Completed", o) : o \in Outcomes}
                  \cup {ResultCode("Halted", "Unsupported")}
NoCode == ResultCode("", "")

\* Mutant of WasLoadSuccess: Skipped counted as a success category
WasLoadSuccess_SkippedToo(outcome) ==
    \/ outcome = "Success"
    \/ outcome = "DefaultsUsed"
    \/ outcome = "PartialDefaults"
    \/ outcome = "Skipped"


\* Helper function to check whether the load outcome was success
WasLoadSuccess(outcome) ==
    \/ outcome = "Success"
    \/ outcome = "DefaultsUsed"
    \/ outcome = "PartialDefaults"


(***************************************************************************)
(* Texts produced by the code, as the pieces it formats or appends         *)
(***************************************************************************)
NeedContextError == <<"Need SerializeContext for loading">>
TooLargeError == <<"Data is too large.">>
ReadIncompleteError == <<"Cannot to read input stream.">>
ParseError == <<"JSON parse error at line ", "%zu", ": ", "%s">>
NotValidFileError == <<"Not a valid JsonSerialization file">>
NoClassNameError == <<"File should contain ClassName">>
ClassDataError == <<"ClassData should be an object">>
ClassMismatchError(name, className) ==
    <<"Try to load class ", name, " from class ", className, " data">>
CantFindClassError(className) ==
    <<"Can't find serialize context for class ", className>>
\* AZStd::string_view target: the characters of the view, and the string
\* that starts at target.data() and ends at the next NUL of the buffer under
\* the view.  A view of a whole NUL-terminated string has the two equal.
View(text, cstr) == [view |-> text, cstr |-> cstr]
\* the buffer under the view has no NUL
Unterminated == "<unterminated>"
\* What "%s" makes of target.data(): the string up to the NUL; without a
\* NUL the read runs past the buffer and, in a build that goes on, brings
\* back the characters of the view with whatever follows them
DataString(target) ==
    IF target.cstr = Unterminated THEN Garbage ELSE target.cstr

\* deserializeError.append(message);
\* deserializeError.append(format(" '%s' \n", target.data()))
FormatDiagnostic(message, target) ==
    <<message, " '", DataString(target), "' \n">>

(***************************************************************************)
(* The type/object model (SerializeContext) the calls look types up in     *)
(***************************************************************************)
ClassIds == {"idA", "idB", "idC", "idD"}
NoId == "noid"
RegisteredIds == {"idA", "idB", "idC"}
\* m_name of the class data registered under an id
ClassName(id) ==
    CASE id = "idA" -> "Foo"
      [] id = "idB" -> "foo"
      [] id = "idC" -> "Bar"
\* SerializeContext::FindClassData: the class data or nullptr
FindClassData(id) ==
    IF id \in RegisteredIds THEN [null |-> FALSE, m_name |-> ClassName(id)]
    ELSE [null |-> TRUE, m_name |-> ""]
\* AZ::Crc32 of a string hashes its lower-case form
Crc32(s) == ToLower(s)
\* SerializeContext::FindClassId: the ids registered under a hashed name
\* (the order within the returned vector is the registry's own)
FindClassId(crc) == {id \in RegisteredIds : Crc32(ClassName(id)) = crc}
Orderings(S) == {q \in UNION {[1..n -> S] : n \in {Cardinality(S)}} :
                    \A i, j \in DOMAIN q : i # j => q[i] # q[j]}

(***************************************************************************)
(* Caller-supplied reporting callbacks (JsonDeserializerSettings::         *)
(* m_reporting): none, one that returns the result it is given, one that   *)
(* rewrites every result to success, one that halts on every event.        *)
(***************************************************************************)
ReportingKinds == {"None", "Echo", "ToSuccess", "ToHalted"}
UserReporting(kind, message, result, target) ==
    CASE kind = "Echo" -> result
      [] kind = "ToSuccess" -> ResultCode("Completed", "Success")
      [] kind = "ToHalted" -> ResultCode("Halted", "Unsupported")

SettingsInputs ==
    {[present |-> FALSE, serializeContext |-> FALSE, reporting |-> "None"]}
      \cup [present : {TRUE}, serializeContext : BOOLEAN, reporting : ReportingKinds]
\* A default-constructed JsonDeserializerSettings
DefaultSettings == [serializeContext |-> FALSE, reporting |-> "None", installed |-> FALSE]

(***************************************************************************)
(* Streams: the reported length, what Read returns, and the text read      *)
(***************************************************************************)
\* the reported lengths tried: the threshold itself and one byte beyond it
StreamLengths == {MaxFileSize, MaxFileSize + 1}
Malformed == [malformed |-> TRUE, doc |-> NoDocument]
Texts == {Malformed} \cup [malformed : {FALSE}, doc : Documents]
\* Read returns the whole length, or one byte less (a short read)
Streams == {s \in [length : StreamLengths,
                   bytesRead : StreamLengths \cup {MaxFileSize - 1},
                   text : Texts] :
              s.bytesRead \in {s.length, s.length - 1}}

\* rapidjson::Document::Parse and the error report of ParseJson
ParseJson(text) ==
    IF text.malformed THEN Failure(ParseError) ELSE Success(text.doc)

\* Mutant of LoadJson: the guard rejects the threshold length itself
LoadJson_GuardAtThreshold(s) ==
    IF s.length >= MaxFileSize
    THEN [res |-> Failure(TooLargeError), read |-> 0, parsed |-> 0]
    ELSE IF s.bytesRead # s.length
         THEN [res |-> Failure(ReadIncompleteError), read |-> 1, parsed |-> 0]
         ELSE [res |-> ParseJson(s.text), read |-> 1, parsed |-> 1]

\* Mutant of LoadJson: the byte count Read returns is not compared
LoadJson_IgnoresShortRead(s) ==
    IF s.length > MaxFileSize
    THEN [res |-> Failure(TooLargeError), read |-> 0, parsed |-> 0]
    ELSE [res |-> ParseJson(s.text), read |-> 1, parsed |-> 1]

\* LoadJson(IO::GenericStream&): the outcome, and whether the stream was
\* read and the parser invoked on the way
LoadJson(s) ==
    IF s.length > MaxFileSize
    THEN [res |-> Failure(TooLargeError), read |-> 0, parsed |-> 0]
    ELSE IF s.bytesRead # s.length
         THEN [res |-> Failure(ReadIncompleteError), read |-> 1, parsed |-> 0]
         ELSE [res |-> ParseJson(s.text), read |-> 1, parsed |-> 1]

\* Mutant of ValidateJsonClassHeader: every document is accepted
ValidateJsonClassHeader_AcceptsAll(doc) == Success(NoValue)

\* Mutant of ValidateJsonClassHeader: a missing ClassData is rejected too
ValidateJsonClassHeader_ClassDataRequired(doc) ==
    LET typeItr == FindMember(doc, FileTypeTag)
        nameItr == FindMember(doc, ClassNameTag)
        dataItr == FindMember(doc, ClassDataTag)
    IN  IF typeItr = MemberEnd \/ ~IsString(typeItr) \/ azstricmp(typeItr.s, FileType) # 0
        THEN Failure(NotValidFileError)
        ELSE IF nameItr = MemberEnd \/ ~IsString(nameItr)
             THEN Failure(NoClassNameError)
             ELSE IF dataItr = MemberEnd \/ ~IsObject(dataItr)
                  THEN Failure(ClassDataError)
                  ELSE Success(NoValue)

\* Helper function to validate the JSON is structured with the standard
\* header for a generic class
ValidateJsonClassHeader(doc) ==
    LET typeItr == FindMember(doc, FileTypeTag)
        nameItr == FindMember(doc, ClassNameTag)
        dataItr == FindMember(doc, ClassDataTag)
    IN  IF typeItr = MemberEnd \/ ~IsString(typeItr) \/ azstricmp(typeItr.s, FileType) # 0
        THEN Failure(NotValidFileError)
        ELSE IF nameItr = MemberEnd \/ ~IsString(nameItr)
             THEN Failure(NoClassNameError)
             ELSE IF dataItr # MemberEnd /\ ~IsObject(dataItr)
                  THEN Failure(ClassDataError)
                  ELSE Success(NoValue)

\* Mutant of AppendDiagnostic: the uuid message is not filtered out
AppendDiagnostic_NoUuidFilter(buf, message, result, target) ==
    IF ~WasLoadSuccess(result.outcome)
    THEN buf \o FormatDiagnostic(message, target)
    ELSE buf

\* The append-or-skip step of the reporting callback installed by
\* PrepareDeserializerSettings: the diagnostics buffer after the event
AppendDiagnostic(buf, message, result, target) ==
    IF ~WasLoadSuccess(result.outcome)
    THEN IF message # UuidMessage
         THEN buf \o FormatDiagnostic(message, target)
         ELSE buf
    ELSE buf

\* Mutant of DelegateResult: the caller callback's return value is dropped
DelegateResult_ReturnsIncoming(kind, message, result, target) == result

\* The value the installed callback returns to the mapper
DelegateResult(kind, message, result, target) ==
    IF kind # "None" THEN UserReporting(kind, message, result, target) ELSE result

\* Mutant of LoadVerdict: the diagnostics buffer is not consulted
LoadVerdict_IgnoresDiagnostics(mapped, deserializeErrors, value) ==
    IF ~WasLoadSuccess(mapped.outcome)
    THEN Failure(deserializeErrors)
    ELSE Success(value)

\* The verdict of a load once the mapper has returned
LoadVerdict(mapped, deserializeErrors, value) ==
    IF ~WasLoadSuccess(mapped.outcome) \/ deserializeErrors # <<>>
    THEN Failure(deserializeErrors)
    ELSE Success(value)

(***************************************************************************)
(* State of one load call                                                  *)
(***************************************************************************)
VARIABLES
    api,            \* "LoadObject" (LoadObjectFromStreamByType) or "LoadAny" (LoadAnyObjectFromStream)
    pc,             \* position of the call
    settings,       \* the caller's settings argument (present = non-null)
    busContext,     \* whether the application bus answers GetSerializeContext
    stream,         \* the input stream
    classId,        \* the requested class id (LoadObject) or the resolved one (LoadAny)
    loadSettings,   \* the call's own JsonDeserializerSettings
    deserializeErrors, \* the per-call diagnostics buffer
    parseResult,    \* outcome of LoadJson; its value is the parsed document
    validateResult, \* outcome of ValidateJsonClassHeader
    className,      \* the string read from the ClassName member
    ids,            \* the ids FindClassId returned (LoadAny)
    anyData,        \* the instance CreateAny constructed (LoadAny), by class id
    payload,        \* the value handed to the object mapper
    event,          \* the event the mapper is reporting
    returned,       \* what the installed callback returns for that event
    userArgs,       \* the arguments the caller's callback was invoked with
    mapperResult,   \* the result code JsonSerialization::Load returned
    result,         \* what the call returns
    streamReads,    \* number of stream.Read calls
    parserCalls,    \* number of parser invocations
    mapperCalls,    \* number of JsonSerialization::Load invocations
    nEvents,        \* number of events reported to the installed callback
    nRecordable,    \* ... of which: no success category and not the uuid message
    nFiltered,      \* ... of which: no success category and the uuid message
    coreSteps,      \* number of append-or-skip steps the installed callback ran
    userCalls       \* number of invocations of the caller's callback

(***************************************************************************)
(* State of one save call (SaveObjectToStreamByType, SaveObjectToFileByType)*)
(***************************************************************************)
VARIABLES
    saveApi,        \* "SaveToStream", "SaveToFile", or "none" when no save runs
    spc,            \* position of the save call
    sClassId,       \* the class id the object is saved as
    object,         \* the object saved, by field
    defaultObject,  \* the default object to diff against, or NoObject (nullptr)
    sSettings,      \* the caller's JsonSerializerSettings argument
    canWrite,       \* what stream.CanWrite() answers
    streamTakes,    \* pieces of text the stream takes before Write returns 0
    storeResult,    \* the result code JsonSerialization::Store returned
    serializedObject, \* the payload Store produced
    sDocument,      \* members of the jsonDocument being built, in order
    written,        \* the pieces of the text that reached the stream
    writtenLength,  \* length of the text on the stream, in pieces
    sResult,        \* what SaveObjectToStreamByType returns
    storeCalls,     \* number of JsonSerialization::Store invocations
    contextQueries, \* number of times a serialize context was resolved
    objectToLoad,   \* the caller's object a load after the save fills
    objectBefore    \* that object as it was before the load

(***************************************************************************)
(* State of a call that opens a file itself (LoadJson(filePath),           *)
(* LoadAnyObjectFromFile, SaveObjectToFileByType)                          *)
(***************************************************************************)
VARIABLES
    fileApi,        \* "LoadJsonFile", "LoadAnyFile", "SaveToFile" or "none"
    fpc,            \* position of the call
    handle,         \* the file stream: "unopened", "open" or "closed"
    fileContent,    \* what the destination file holds: "untouched", "empty", "partial", "whole"
    fileResult      \* what the call returns

\* Load calls running side by side
VARIABLES
    calls           \* per call: its position, settings copy, buffer and result

loadVars == <<api, pc, settings, busContext, stream, classId, loadSettings,
          deserializeErrors, parseResult, validateResult, className, ids,
          anyData, payload, event, returned, userArgs, mapperResult, result,
          streamReads, parserCalls, mapperCalls, nEvents, nRecordable,
          nFiltered, coreSteps, userCalls>>
saveVars == <<saveApi, spc, sClassId, object, defaultObject, sSettings,
              canWrite, streamTakes, storeResult, serializedObject,
              sDocument, written, writtenLength, sResult, storeCalls,
              contextQueries>>
roundTripVars == <<objectToLoad, objectBefore>>
fileVars == <<fileApi, fpc, handle, fileContent, fileResult>>
\* what the steps of a load call leave alone
\* One call of ParseJson
VARIABLES
    jsonText,       \* the input, a sequence of characters
    hasParseError,  \* whether the grammar engine reports an error
    errorOffset,    \* the byte offset it reports
    searchOffset,   \* the loop variable of the newline count
    lineNumber,     \* the line number counted so far
    ppc,            \* position of the call
    pResult         \* what the call returns

parseVars == <<jsonText, hasParseError, errorOffset, searchOffset, lineNumber,
               ppc, pResult>>

\* One call of ReportCommonWarnings
VARIABLES
    wResult,        \* the result code handed in
    wPath,          \* the path handed in, as its segments
    wReturned,      \* the result code returned
    wWarnings,      \* the warnings emitted
    wpc             \* position of the call

warnVars == <<wResult, wPath, wReturned, wWarnings, wpc>>

\* One call of AssetRequestHandler::InvokeHandler
VARIABLES
    hMessage,       \* the message handed in
    hKey,           \* the NetworkRequestID (connection id, serial) handed in
    hFencingFailed, \* the fencingFailed argument
    hResponses,     \* the SendResponse calls of the call, in order
    hQueued,        \* the RequestReady invocations the call queued
    hDelete,        \* the return value: whether the caller deletes the message
    requestHandlerMap   \* m_RequestHandlerMap: the message ids with a handler

invokeVars == <<hMessage, hKey, hFencingFailed, hResponses, hQueued, hDelete,
                requestHandlerMap>>

\* The asset status requests of an AssetRequestHandler
VARIABLES
    pendingAssetRequests,   \* m_pendingAssetRequests: request id -> its
                            \* lines, the one put in last first
    multiValued,            \* whether the type of m_pendingAssetRequests
                            \* keeps several lines under one id
    received,               \* how many ProcessAssetRequest calls there were
    statusSent,             \* per received request, the statuses sent for it
    hSignal,                \* the Qt signal the last event emitted
    hEvent                  \* the last event and its request id

pendingVars == <<pendingAssetRequests, multiValued, received, statusSent,
                 hSignal, hEvent>>

concVars == <<calls>>
extraVars == <<parseVars, warnVars, invokeVars, pendingVars>>
coreVars == <<loadVars, saveVars, roundTripVars, fileVars, concVars>>
otherVars == <<saveVars, roundTripVars, fileVars, concVars, extraVars>>
vars == <<loadVars, saveVars, roundTripVars, fileVars, concVars, extraVars>>

Messages == {UuidMessage, "Unknown field"}
\* The kinds of events, as the specification words them
SuccessCategories == {"Success", "DefaultsUsed", "PartialDefaults"}
IsRecordable(e) ==
    e.result.outcome \notin SuccessCategories /\ e.message # UuidMessage
IsFiltered(e) ==
    e.result.outcome \notin SuccessCategories /\ e.message = UuidMessage

\* A view of the whole string "/a"; the first two characters of "/a/b";
\* four characters with a NUL among them; and two characters of a buffer
\* without a NUL
WholeTarget == View("/a", "/a")
Targets == {WholeTarget, View("/a", "/a/b"), View("/a<NUL>b", "/a"),
            View("/a", Unterminated)}
\* The events handed to the callback.  The target is formatted for a
\* recordable event only, so the other events carry the whole-string view.
Events ==
    {e \in [message : Messages, result : ResultCodes, target : Targets] :
        ~IsRecordable(e) => e.target = WholeTarget}
NoEvent == [message |-> "", result |-> NoCode, target |-> ""]

\* The most pieces of text a stream takes: the text of a document has six
MaxTaken == 6

\* Objects: the fields of the one class shape modelled, with small values
MaxFieldValue == 1
FieldNames == {"x", "y"}
Objects == [FieldNames -> 0..MaxFieldValue]
NoObject == [x |-> -1, y |-> -1]
NoPayload == [kind |-> "none", fields |-> <<>>]

\* No save call, no call on a file
SaveIdle ==
    /\ saveApi = "none"
    /\ spc = "idle"
    /\ sClassId = NoId
    /\ object = NoObject
    /\ defaultObject = NoObject
    /\ sSettings = [present |-> FALSE, serializeContext |-> FALSE]
    /\ canWrite = FALSE
    /\ streamTakes = 0
    /\ storeResult = NoCode
    /\ serializedObject = NoPayload
    /\ sDocument = <<>>
    /\ written = <<>>
    /\ writtenLength = 0
    /\ sResult = NoResult
    /\ storeCalls = 0
    /\ contextQueries = 0
RoundTripIdle ==
    /\ objectToLoad = NoObject
    /\ objectBefore = NoObject
FileIdle ==
    /\ fileApi = "none"
    /\ fpc = "idle"
    /\ handle = "unopened"
    /\ fileContent = "untouched"
    /\ fileResult = NoResult
ConcIdle == calls = <<>>

ParseIdle ==
    /\ jsonText = <<>>
    /\ hasParseError = FALSE
    /\ errorOffset = 0
    /\ searchOffset = 0
    /\ lineNumber = 0
    /\ ppc = "idle"
    /\ pResult = NoResult

\* No call outside the load, save, file and side-by-side calls is running
WarnIdle ==
    /\ wResult = NoCode
    /\ wPath = <<>>
    /\ wReturned = NoCode
    /\ wWarnings = <<>>
    /\ wpc = "idle"

\* NetworkRequestID: the pair (connection id, serial) of a request
NetworkRequestIds == {<<1, 1>>, <<1, 2>>}
NoKey == <<0, 0>>
NoMessage == [type |-> "none"]
NoLine == [instance |-> 0]
NoHandlerEvent == [kind |-> "none", id |-> NoKey]

InvokeIdle ==
    /\ hMessage = NoMessage
    /\ hKey = NoKey
    /\ hFencingFailed = FALSE
    /\ hResponses = <<>>
    /\ hQueued = <<>>
    /\ hDelete = FALSE
    /\ requestHandlerMap = {"RequestAssetStatus"}

PendingIdle ==
    /\ pendingAssetRequests = [k \in NetworkRequestIds |-> <<>>]
    /\ multiValued = FALSE
    /\ received = 0
    /\ statusSent = <<>>
    /\ hSignal = "none"
    /\ hEvent = NoHandlerEvent

HandlerIdle ==
    /\ InvokeIdle
    /\ PendingIdle

ExtraIdle ==
    /\ ParseIdle
    /\ WarnIdle
    /\ HandlerIdle

\* The state in which a load call is entered
LoadEntry ==
    /\ loadSettings = DefaultSettings
    /\ deserializeErrors = <<>>
    /\ parseResult = NoResult
    /\ validateResult = NoResult
    /\ className = ""
    /\ ids = <<>>
    /\ anyData = NoValue
    /\ payload = Absent
    /\ event = NoEvent
    /\ returned = NoCode
    /\ userArgs = NoEvent
    /\ mapperResult = NoCode
    /\ result = NoResult
    /\ streamReads = 0
    /\ parserCalls = 0
    /\ mapperCalls = 0
    /\ nEvents = 0
    /\ nRecordable = 0
    /\ nFiltered = 0
    /\ coreSteps = 0
    /\ userCalls = 0

Init ==
    /\ SaveIdle
    /\ RoundTripIdle
    /\ FileIdle
    /\ ConcIdle
    /\ ExtraIdle
    /\ api \in {"LoadObject", "LoadAny"}
    /\ pc = "prepare"
    /\ settings \in SettingsInputs
    \* the bus is asked only when the settings carry no context
    /\ busContext \in IF settings.serializeContext THEN {FALSE} ELSE BOOLEAN
    /\ stream \in Streams
    /\ classId \in IF api = "LoadObject" THEN {"idA", "idC", "idD"} ELSE {NoId}
    /\ loadSettings = DefaultSettings
    /\ deserializeErrors = <<>>
    /\ parseResult = NoResult
    /\ validateResult = NoResult
    /\ className = ""
    /\ ids = <<>>
    /\ anyData = NoValue
    /\ payload = Absent
    /\ event = NoEvent
    /\ returned = NoCode
    /\ userArgs = NoEvent
    /\ mapperResult = NoCode
    /\ result = NoResult
    /\ streamReads = 0
    /\ parserCalls = 0
    /\ mapperCalls = 0
    /\ nEvents = 0
    /\ nRecordable = 0
    /\ nFiltered = 0
    /\ coreSteps = 0
    /\ userCalls = 0

jsonDocument == parseResult.value

\* The call returns r
Return(r) == result' = r /\ pc' = "done"
\* The process dies on an invalid read
Crash == result' = result /\ pc' = "crash"
\* jsonDocument.FindMember(...) on a root that is no object
InvalidRootRead == ~IsObjectRoot(jsonDocument)

(***************************************************************************)
(* PrepareDeserializerSettings, and the return of the caller on failure    *)
(***************************************************************************)
PrepareDeserializerSettings ==
    /\ pc = "prepare"
    /\ UNCHANGED otherVars
    /\ LET copied == IF settings.present
                     THEN [DefaultSettings EXCEPT !.serializeContext = settings.serializeContext,
                                                  !.reporting = settings.reporting]
                     ELSE DefaultSettings
           \* the bus is asked only when the settings carry no context
           context == copied.serializeContext \/ busContext
       IN  IF ~context
           THEN /\ Return(Failure(NeedContextError))
                /\ loadSettings' = copied
           ELSE /\ loadSettings' = [copied EXCEPT !.serializeContext = TRUE, !.installed = TRUE]
                /\ pc' = "loadjson"
                /\ result' = result
    /\ UNCHANGED <<api, settings, busContext, stream, classId, deserializeErrors,
                   parseResult, validateResult, className, ids, anyData, payload,
                   event, returned, userArgs, mapperResult, streamReads,
                   parserCalls, mapperCalls, nEvents, coreSteps, userCalls,
                   nRecordable, nFiltered>>

(***************************************************************************)
(* auto parseResult = LoadJson(stream); failure returns its error          *)
(***************************************************************************)
CallLoadJson ==
    /\ pc = "loadjson"
    /\ UNCHANGED otherVars
    /\ LET r == LoadJson(stream)
       IN  /\ parseResult' = r.res
           /\ streamReads' = streamReads + r.read
           /\ parserCalls' = parserCalls + r.parsed
           /\ IF ~r.res.ok
              THEN Return(Failure(r.res.err))
              ELSE pc' = "validate" /\ result' = result
    /\ UNCHANGED <<api, settings, busContext, stream, classId, loadSettings,
                   deserializeErrors, validateResult, className, ids, anyData,
                   payload, event, returned, userArgs, mapperResult,
                   mapperCalls, nEvents, coreSteps, userCalls,
                   nRecordable, nFiltered>>

(***************************************************************************)
(* auto validateResult = ValidateJsonClassHeader(jsonDocument) and the     *)
(* test that follows it: LoadObjectFromStreamByType tests validateResult,  *)
(* LoadAnyObjectFromStream tests parseResult                               *)
(***************************************************************************)
CallValidateJsonClassHeader ==
    /\ pc = "validate"
    /\ UNCHANGED otherVars
    /\ \/ /\ InvalidRootRead
          /\ Crash
          /\ UNCHANGED validateResult
       \/ LET v == ValidateJsonClassHeader(jsonDocument)
          IN  /\ validateResult' = v
              /\ IF api = "LoadObject"
                 THEN IF ~v.ok
                      THEN Return(Failure(v.err))
                      ELSE pc' = "resolve" /\ result' = result
                 ELSE IF ~parseResult.ok
                      THEN Return(Failure(parseResult.err))
                      ELSE pc' = "resolve" /\ result' = result
    /\ UNCHANGED <<api, settings, busContext, stream, classId, loadSettings,
                   deserializeErrors, parseResult, className, ids, anyData,
                   payload, event, returned, userArgs, mapperResult,
                   streamReads, parserCalls, mapperCalls, nEvents, coreSteps,
                   userCalls,
                   nRecordable, nFiltered>>

(***************************************************************************)
(* Reads whose behaviour the language leaves undefined: the build may      *)
(* crash, or go on with whatever the read produced.                        *)
(***************************************************************************)
\* strings an invalid read may produce: garbage, or by chance a known name
UBStrings == {Garbage, "Foo"}
GarbageValue == [kind |-> "garbage", s |-> ""]

(***************************************************************************)
(* LoadObjectFromStreamByType: read ClassName, validate class name         *)
(***************************************************************************)
\* Mutant of CompareClassName: the test of the comparison is inverted
CompareClassName_Inverted(name, stored) ==
    /\ className' = stored
    /\ IF azstricmp(name, stored) = 0
       THEN Return(Failure(ClassMismatchError(name, stored)))
       ELSE pc' = "invoke" /\ result' = result

CompareClassName(name, stored) ==
    /\ className' = stored
    /\ IF azstricmp(name, stored) # 0
       THEN Return(Failure(ClassMismatchError(name, stored)))
       ELSE pc' = "invoke" /\ result' = result

ValidateClassName ==
    /\ pc = "resolve"
    /\ UNCHANGED otherVars
    /\ api = "LoadObject"
    /\ LET nameValue == FindMember(jsonDocument, ClassNameTag)
           classData == FindClassData(classId)
       IN  \/ /\ IsString(nameValue)
              /\ ~classData.null
              /\ CompareClassName(classData.m_name, nameValue.s)
           \* classData is nullptr: classData->m_name is an invalid read
           \/ /\ IsString(nameValue)
              /\ classData.null
              /\ \/ Crash /\ className' = nameValue.s
                 \/ \E name \in {Garbage, nameValue.s} : CompareClassName(name, nameValue.s)
           \/ /\ InvalidRootRead
              /\ Crash
              /\ UNCHANGED className
    /\ UNCHANGED <<api, settings, busContext, stream, classId, loadSettings,
                   deserializeErrors, parseResult, validateResult, ids, anyData,
                   payload, event, returned, userArgs, mapperResult,
                   streamReads, parserCalls, mapperCalls, nEvents, coreSteps,
                   userCalls,
                   nRecordable, nFiltered>>

(***************************************************************************)
(* LoadAnyObjectFromStream: read ClassName, FindClassId, CreateAny         *)
(***************************************************************************)
\* Mutant of LookupClassName: the last found id is used, not the first
LookupClassName_LastId(stored) ==
    /\ className' = stored
    /\ \E found \in Orderings(FindClassId(Crc32(stored))) :
          /\ ids' = found
          /\ IF Len(found) >= 1
             THEN /\ classId' = found[Len(found)]
                  /\ anyData' = found[Len(found)]
                  /\ pc' = "invoke"
                  /\ result' = result
             ELSE /\ Return(Failure(CantFindClassError(stored)))
                  /\ UNCHANGED <<classId, anyData>>

LookupClassName(stored) ==
    /\ className' = stored
    /\ \E found \in Orderings(FindClassId(Crc32(stored))) :
          /\ ids' = found
          \* Load with first found class id
          /\ IF Len(found) >= 1
             THEN /\ classId' = found[1]
                  /\ anyData' = found[1]
                  /\ pc' = "invoke"
                  /\ result' = result
             ELSE /\ Return(Failure(CantFindClassError(stored)))
                  /\ UNCHANGED <<classId, anyData>>

ResolveClassName ==
    /\ pc = "resolve"
    /\ UNCHANGED otherVars
    /\ api = "LoadAny"
    /\ LET nameValue == FindMember(jsonDocument, ClassNameTag)
       IN  \/ /\ IsString(nameValue)
              /\ LookupClassName(nameValue.s)
           \* FindMember(...) is MemberEnd, or the value is no string:
           \* ->value.GetString() is an invalid read
           \/ /\ ~IsString(nameValue)
              /\ \/ Crash /\ UNCHANGED <<className, ids, classId, anyData>>
                 \/ \E s \in UBStrings : LookupClassName(s)
           \/ /\ InvalidRootRead
              /\ Crash
              /\ UNCHANGED <<className, ids, classId, anyData>>
    /\ UNCHANGED <<api, settings, busContext, stream, loadSettings,
                   deserializeErrors, parseResult, validateResult, payload,
                   event, returned, userArgs, mapperResult, streamReads,
                   parserCalls, mapperCalls, nEvents, coreSteps, userCalls,
                   nRecordable, nFiltered>>

(***************************************************************************)
(* JsonSerialization::Load(object, classId,                                *)
(*     jsonDocument.FindMember(ClassDataTag)->value, loadSettings)         *)
(***************************************************************************)
InvokeMapper ==
    /\ pc = "invoke"
    /\ UNCHANGED otherVars
    /\ LET dataValue == FindMember(jsonDocument, ClassDataTag)
       IN  \/ /\ dataValue # MemberEnd
              /\ payload' = dataValue
              /\ mapperCalls' = mapperCalls + 1
              /\ pc' = "mapper"
           \* MemberEnd()->value is an invalid read
           \/ /\ dataValue = MemberEnd
              /\ \/ /\ pc' = "crash"
                    /\ UNCHANGED <<payload, mapperCalls>>
                 \/ /\ payload' = GarbageValue
                    /\ mapperCalls' = mapperCalls + 1
                    /\ pc' = "mapper"
           \/ /\ InvalidRootRead
              /\ pc' = "crash"
              /\ UNCHANGED <<payload, mapperCalls>>
    /\ UNCHANGED <<api, settings, busContext, stream, classId, loadSettings,
                   deserializeErrors, parseResult, validateResult, className,
                   ids, anyData, event, returned, userArgs, mapperResult,
                   result, streamReads, parserCalls, nEvents, coreSteps,
                   userCalls,
                   nRecordable, nFiltered>>

(***************************************************************************)
(* The object mapper at work: it reports events to loadSettings.m_reporting *)
(* and finally returns a result code.                                      *)
(***************************************************************************)
MapperReport ==
    /\ pc = "mapper"
    /\ UNCHANGED otherVars
    /\ nEvents < MaxEvents
    /\ \E e \in Events :
          /\ event' = e
          /\ nRecordable' = nRecordable + (IF IsRecordable(e) THEN 1 ELSE 0)
          /\ nFiltered' = nFiltered + (IF IsFiltered(e) THEN 1 ELSE 0)
    /\ nEvents' = nEvents + 1
    /\ pc' = "cb_append"
    /\ UNCHANGED <<api, settings, busContext, stream, classId, loadSettings,
                   deserializeErrors, parseResult, validateResult, className,
                   ids, anyData, payload, returned, userArgs, mapperResult,
                   result, streamReads, parserCalls, mapperCalls, coreSteps,
                   userCalls>>

\* Mutant of DecisionResult: the caller's callback is consulted first
DecisionResult_AfterCallback(kind, message, reported, target) ==
    DelegateResult(kind, message, reported, target)
\* if (!WasLoadSuccess(result.GetOutcome())): result is still the code the
\* mapper reported, the caller's callback runs further down
DecisionResult(kind, message, reported, target) == reported

\* issueReportingCallback, first part: record the diagnostic or not.  The
\* format of a target without a NUL is an invalid read: the build may stop
\* there.
CallbackAppend ==
    /\ pc = "cb_append"
    /\ UNCHANGED otherVars
    /\ \/ /\ deserializeErrors' =
                AppendDiagnostic(deserializeErrors, event.message,
                                 DecisionResult(loadSettings.reporting,
                                                event.message, event.result,
                                                event.target),
                                 event.target)
          /\ coreSteps' = coreSteps + 1
          /\ pc' = "cb_delegate"
       \/ /\ IsRecordable(event)
          /\ event.target.cstr = Unterminated
          /\ pc' = "crash"
          /\ UNCHANGED <<deserializeErrors, coreSteps>>
    /\ UNCHANGED <<api, settings, busContext, stream, classId, loadSettings,
                   parseResult, validateResult, className, ids, anyData,
                   payload, event, returned, userArgs, mapperResult, result,
                   streamReads, parserCalls, mapperCalls, nEvents, userCalls,
                   nRecordable, nFiltered>>

\* issueReportingCallback, second part: if (reporting) result = reporting(...)
CallbackDelegate ==
    /\ pc = "cb_delegate"
    /\ UNCHANGED otherVars
    /\ returned' = DelegateResult(loadSettings.reporting, event.message,
                                  event.result, event.target)
    /\ IF loadSettings.reporting # "None"
       THEN userCalls' = userCalls + 1 /\ userArgs' = event
       ELSE UNCHANGED <<userCalls, userArgs>>
    /\ pc' = "cb_return"
    /\ UNCHANGED <<api, settings, busContext, stream, classId, loadSettings,
                   deserializeErrors, parseResult, validateResult, className,
                   ids, anyData, payload, event, mapperResult, result,
                   streamReads, parserCalls, mapperCalls, nEvents, coreSteps,
                   nRecordable, nFiltered>>

\* return result; the mapper goes on
CallbackReturn ==
    /\ pc = "cb_return"
    /\ UNCHANGED otherVars
    /\ event' = NoEvent
    /\ returned' = NoCode
    /\ userArgs' = NoEvent
    /\ pc' = "mapper"
    /\ UNCHANGED <<api, settings, busContext, stream, classId, loadSettings,
                   deserializeErrors, parseResult, validateResult, className,
                   ids, anyData, payload, mapperResult, result, streamReads,
                   parserCalls, mapperCalls, nEvents, coreSteps, userCalls,
                   nRecordable, nFiltered>>

MapperReturn ==
    /\ pc = "mapper"
    /\ UNCHANGED otherVars
    /\ \E code \in ResultCodes : mapperResult' = code
    /\ pc' = "decide"
    /\ UNCHANGED <<api, settings, busContext, stream, classId, loadSettings,
                   deserializeErrors, parseResult, validateResult, className,
                   ids, anyData, payload, event, returned, userArgs, result,
                   streamReads, parserCalls, mapperCalls, nEvents, coreSteps,
                   userCalls,
                   nRecordable, nFiltered>>

(***************************************************************************)
(* if (!WasLoadSuccess(result.GetOutcome()) || !deserializeErrors.empty()) *)
(*     return Failure(deserializeErrors); return Success(...)              *)
(***************************************************************************)
ReturnVerdict ==
    /\ pc = "decide"
    /\ UNCHANGED otherVars
    /\ Return(LoadVerdict(mapperResult, deserializeErrors,
                          IF api = "LoadAny" THEN anyData ELSE NoValue))
    /\ UNCHANGED <<api, settings, busContext, stream, classId, loadSettings,
                   deserializeErrors, parseResult, validateResult, className,
                   ids, anyData, payload, event, returned, userArgs,
                   mapperResult, streamReads, parserCalls, mapperCalls,
                   nEvents, coreSteps, userCalls,
                   nRecordable, nFiltered>>

Next ==
    \/ PrepareDeserializerSettings
    \/ CallLoadJson
    \/ CallValidateJsonClassHeader
    \/ ValidateClassName
    \/ ResolveClassName
    \/ InvokeMapper
    \/ MapperReport
    \/ CallbackAppend
    \/ CallbackDelegate
    \/ CallbackReturn
    \/ MapperReturn
    \/ ReturnVerdict

Spec == Init /\ [][Next]_vars

(***************************************************************************)
(* The save path: SaveObjectToStreamByType                                 *)
(***************************************************************************)
VersionTag == "Version"
CantWriteError == <<"The GenericStream can't be written to">>
NeedContextSaveError == <<"Need SerializeContext for saving">>
\* jsonResult.ToString("")
StoreError(code) == <<code.processing, " ", code.outcome>>
UnableToWriteError(id) ==
    <<"Unable to write class ", id, " with json serialization format'">>

Member(name, value) == [name |-> name, value |-> value]
Number(text) == [kind |-> "number", s |-> text]
ObjectOf(fields) == [kind |-> "object", s |-> "", fields |-> fields]
MemberNames(members) == [i \in DOMAIN members |-> members[i].name]
\* FindMember on a sequence of members: the first of that name, or MemberEnd
MemberValue(members, name) ==
    IF \E i \in DOMAIN members : members[i].name = name
    THEN members[CHOOSE i \in DOMAIN members :
                    /\ members[i].name = name
                    /\ \A j \in DOMAIN members : members[j].name = name => i <= j].value
    ELSE MemberEnd
\* What a load reads of a written document: its header members by name
HeaderOf(members) ==
    [root |-> "object",
     Type |-> MemberValue(members, FileTypeTag),
     ClassName |-> MemberValue(members, ClassNameTag),
     ClassData |-> MemberValue(members, ClassDataTag)]

\* The text PrettyWriter makes of a document, in pieces: the opening of the
\* root object, one piece per member, the closing of the root object
NoMember == [name |-> "", value |-> Absent]
Token(kind, member) == [token |-> kind, member |-> member]
DocumentText(members) ==
    <<Token("StartObject", NoMember)>>
        \o [i \in DOMAIN members |-> Token("Member", members[i])]
        \o <<Token("EndObject", NoMember)>>
\* The members a text holds in full
MembersOf(text) ==
    LET held == SelectSeq(text, LAMBDA t : t.token = "Member")
    IN  [i \in DOMAIN held |-> held[i].member]
\* What is on a stream that took `takes` pieces and then stopped taking
\* bytes: RapidJSONStreamWriter goes on handing over the rest, and the
\* stream's Write returns 0 for it
TakenBy(takes, text) ==
    SubSeq(text, 1, IF takes < Len(text) THEN takes ELSE Len(text))

\* The instance the object model constructs by default for a class
TypeDefault == [f \in FieldNames |-> 0]
FieldOrder == <<"x", "y">>

\* What may go wrong inside Store
StoreIssues == {"none", "unsupported", "invalid", "nonfinite"}
\* JsonSerialization::Store: the payload holds the fields of the object,
\* without those equal to the default object's when one is supplied; the
\* outcome tells whether no, some or all fields were left out.  A class the
\* object model does not know, or content it cannot encode, is unsupported.
\* A floating-point member that holds NaN or an infinity is stored as it
\* is: the payload then holds a number JSON has no text for.
Store(obj, def, id, issue) ==
    IF id \notin RegisteredIds \/ issue = "unsupported"
    THEN [code |-> ResultCode("Altered", "Unsupported"), value |-> Null]
    ELSE IF issue = "invalid"
    THEN [code |-> ResultCode("Halted", "Invalid"), value |-> Null]
    ELSE IF issue = "nonfinite"
    THEN [code |-> ResultCode("Completed", "Success"),
          value |-> [kind |-> "object", s |-> "nan", fields |-> <<>>]]
    ELSE LET kept == IF def = NoObject THEN FieldNames
                     ELSE {f \in FieldNames : obj[f] # def[f]}
             outcome == IF kept = FieldNames THEN "Success"
                        ELSE IF kept = {} THEN "DefaultsUsed"
                        ELSE "PartialDefaults"
         IN  [code |-> ResultCode("Completed", outcome),
              value |-> ObjectOf([f \in kept |-> obj[f]])]

SaveReturn(r) == sResult' = r /\ spc' = "done"

\* jsonDocument.SetObject(); AddMember(FileTypeTag, FileType)
SaveDocumentRoot == <<Member(FileTypeTag, Str(FileType))>>


\* Mutant of CanWriteGuard: the stream is not asked
CanWriteGuard_Ignored(writable) == NoResult
\* if (!stream.CanWrite()) return Failure(...)
CanWriteGuard(writable) ==
    IF ~writable THEN Failure(CantWriteError) ELSE NoResult

SaveCheckStream ==
    /\ spc = "canwrite"
    /\ IF CanWriteGuard(canWrite).set
       THEN SaveReturn(CanWriteGuard(canWrite))
       ELSE spc' = "context" /\ sResult' = sResult
    /\ UNCHANGED <<saveApi, sClassId, object, defaultObject, sSettings,
                   canWrite, streamTakes, storeResult, serializedObject, sDocument,
                   written, writtenLength, storeCalls, contextQueries>>
    /\ UNCHANGED <<loadVars, roundTripVars, fileVars, concVars, extraVars>>

\* saveSettings = *settings; the serialize context of the settings, else the
\* one the application bus answers, else failure
SaveResolveContext ==
    /\ spc = "context"
    /\ contextQueries' = contextQueries + 1
    /\ IF ~(sSettings.present /\ sSettings.serializeContext) /\ ~busContext
       THEN SaveReturn(Failure(NeedContextSaveError))
       ELSE spc' = "store" /\ sResult' = sResult
    /\ UNCHANGED <<saveApi, sClassId, object, defaultObject, sSettings,
                   canWrite, streamTakes, storeResult, serializedObject, sDocument,
                   written, writtenLength, storeCalls>>
    /\ UNCHANGED <<loadVars, roundTripVars, fileVars, concVars, extraVars>>

\* jsonResult.GetProcessing() != Processing::Completed, negated
StoreCompleted(code) == code.processing = "Completed"

\* jsonDocument.SetObject(); AddMember(Type); Store(...); a processing
\* status other than Completed returns the result's text
SaveStore ==
    /\ spc = "store"
    /\ \E issue \in StoreIssues :
          LET r == Store(object, defaultObject, sClassId, issue)
          IN  /\ storeResult' = r.code
              /\ serializedObject' = r.value
              /\ IF ~StoreCompleted(r.code)
                 THEN SaveReturn(Failure(StoreError(r.code)))
                 ELSE spc' = "envelope" /\ sResult' = sResult
    /\ sDocument' = SaveDocumentRoot
    /\ storeCalls' = storeCalls + 1
    /\ UNCHANGED <<saveApi, sClassId, object, defaultObject, sSettings,
                   canWrite, streamTakes, written, writtenLength, contextQueries>>
    /\ UNCHANGED <<loadVars, roundTripVars, fileVars, concVars, extraVars>>

\* The members added after Store: Version, ClassName, ClassData
Envelope(doc, name, data) ==
    doc \o <<Member(VersionTag, Number("1")),
             Member(ClassNameTag, Str(name)),
             Member(ClassDataTag, data)>>

\* classData = FindClassData(classId); AddMember(Version, ClassName, ClassData)
SaveEnvelope ==
    /\ spc = "envelope"
    /\ LET classData == FindClassData(sClassId)
       IN  \/ /\ ~classData.null
              /\ sDocument' = Envelope(sDocument, classData.m_name, serializedObject)
              /\ spc' = "write"
           \* classData is nullptr: classData->m_name is an invalid read
           \/ /\ classData.null
              /\ \/ spc' = "crash" /\ sDocument' = sDocument
                 \/ /\ sDocument' = Envelope(sDocument, Garbage, serializedObject)
                    /\ spc' = "write"
    /\ UNCHANGED <<saveApi, sClassId, object, defaultObject, sSettings,
                   canWrite, streamTakes, storeResult, serializedObject, written,
                   writtenLength, sResult, storeCalls, contextQueries>>
    /\ UNCHANGED <<loadVars, roundTripVars, fileVars, concVars, extraVars>>

\* Writer::Double refuses a number that is NaN or an infinity
WriterRefuses(value) == value.kind = "object" /\ value.s = "nan"

\* jsonDocument.Accept(writer).  The writer hands the text to the stream
\* piece by piece.  RapidJSONStreamWriter does not look at what the stream's
\* Write returns, so Accept returns true whether or not the bytes reached
\* the stream; it returns false when the writer refuses a value of the
\* ClassData member, with the text before that member already handed over.
SaveWrite ==
    /\ spc = "write"
    /\ LET text == DocumentText(sDocument)
           refused == WriterRefuses(serializedObject)
           handed == IF refused THEN SubSeq(text, 1, Len(text) - 2) ELSE text
       IN  /\ written' = TakenBy(streamTakes, handed)
           /\ writtenLength' = Len(written')
           /\ IF refused
              THEN SaveReturn(Failure(UnableToWriteError(sClassId)))
              ELSE SaveReturn(Success(NoValue))
    /\ UNCHANGED <<saveApi, sClassId, object, defaultObject, sSettings,
                   canWrite, streamTakes, storeResult, serializedObject, sDocument,
                   storeCalls, contextQueries>>
    /\ UNCHANGED <<loadVars, roundTripVars, fileVars, concVars, extraVars>>

(***************************************************************************)
(* SaveObjectToFileByType: the save above into a byte buffer, then the      *)
(* buffer into the file                                                    *)
(***************************************************************************)
OpenForWriteError == <<"Error opening file '", "path", "' for writing">>
WriteOutcomes == {"whole", "partial", "empty"}
\* ~FileIOStream: a stream that owns an open handle closes it
CloseOnScopeExit(h) == IF h = "open" THEN "closed" ELSE h

\* Mutant of OpensFile: the file is opened whatever the save returned
OpensFile_Always(saveResult) == TRUE
\* if (saveResult.IsSuccess())
OpensFile(saveResult) == saveResult.ok

\* if (saveResult.IsSuccess()) { Open(...) or return Failure }
SaveFileOpen ==
    /\ fileApi = "SaveToFile"
    /\ fpc = "inner"
    /\ spc = "done"
    /\ IF OpensFile(sResult)
       THEN \E opens \in BOOLEAN :
               IF opens
               THEN /\ handle' = "open"
                    \* ModeWrite creates the file, or empties the one there
                    /\ fileContent' = "empty"
                    /\ fpc' = "write"
                    /\ fileResult' = fileResult
               ELSE /\ fileResult' = Failure(OpenForWriteError)
                    /\ fpc' = "exit"
                    /\ UNCHANGED <<handle, fileContent>>
       ELSE /\ fileResult' = sResult
            /\ fpc' = "exit"
            /\ UNCHANGED <<handle, fileContent>>
    /\ UNCHANGED fileApi
    /\ UNCHANGED <<loadVars, saveVars, roundTripVars, concVars, extraVars>>

\* outputFileStream.Write(buffer.size(), buffer.data()); return saveResult
SaveFileWrite ==
    /\ fileApi = "SaveToFile"
    /\ fpc = "write"
    /\ \E w \in WriteOutcomes : fileContent' = w
    /\ fileResult' = sResult
    /\ fpc' = "exit"
    /\ UNCHANGED <<fileApi, handle>>
    /\ UNCHANGED <<loadVars, saveVars, roundTripVars, concVars, extraVars>>

\* Mutant of FileStreamStorage: the stream object outlives the call
FileStreamStorage_Dynamic == "dynamic"
\* IO::FileIOStream file; -- the stream objects are locals of the call
FileStreamStorage == "automatic"

\* The stream object goes out of scope and the call returns
FileScopeExit ==
    /\ fpc = "exit"
    /\ handle' = IF FileStreamStorage = "automatic"
                 THEN CloseOnScopeExit(handle) ELSE handle
    /\ fpc' = "returned"
    /\ UNCHANGED <<fileApi, fileContent, fileResult>>
    /\ UNCHANGED <<loadVars, saveVars, roundTripVars, concVars, extraVars>>

(***************************************************************************)
(* Round trip: the written stream is read back by                          *)
(* LoadObjectFromStreamByType into an instance of the same class           *)
(***************************************************************************)
RoundTripSettings ==
    {s \in SettingsInputs : s.reporting \in {"None", "Echo"}}

BeginLoad ==
    /\ saveApi = "SaveToStream"
    /\ spc = "done"
    /\ sResult.ok
    /\ pc = "idle"
    /\ api' = "LoadObject"
    /\ pc' = "prepare"
    /\ classId' = sClassId
    /\ \E s \in RoundTripSettings :
          /\ s.serializeContext \/ busContext
          /\ settings' = s
    \* a text the stream took only part of ends inside the document
    /\ stream' = [length |-> writtenLength, bytesRead |-> writtenLength,
                  text |-> IF written = DocumentText(sDocument)
                           THEN [malformed |-> FALSE,
                                 doc |-> HeaderOf(MembersOf(written))]
                           ELSE Malformed]
    /\ \E o \in Objects : objectToLoad' = o /\ objectBefore' = o
    /\ UNCHANGED <<busContext, loadSettings, deserializeErrors, parseResult,
                   validateResult, className, ids, anyData, payload, event,
                   returned, userArgs, mapperResult, result, streamReads,
                   parserCalls, mapperCalls, nEvents, nRecordable, nFiltered,
                   coreSteps, userCalls>>
    /\ UNCHANGED <<saveVars, fileVars, concVars, extraVars>>

\* JsonSerialization::Load on the payload of a saved object: a field the
\* payload holds is assigned, a field it lacks keeps the value the instance
\* has and is reported as left at its default.
AbsentFields(data) ==
    SelectSeq(FieldOrder, LAMBDA f : f \notin DOMAIN data.fields)
FieldTarget(f) == IF f = "x" THEN View("/x", "/x") ELSE View("/y", "/y")
DefaultEvent(f) ==
    [message |-> "Field left at its default",
     result |-> ResultCode("Completed", "DefaultsUsed"),
     target |-> FieldTarget(f)]
LoadFields(instance, data) ==
    [f \in FieldNames |->
        IF f \in DOMAIN data.fields THEN data.fields[f] ELSE instance[f]]
LoadOutcome(data) ==
    IF AbsentFields(data) = <<>> THEN "Success"
    ELSE IF Len(AbsentFields(data)) = Len(FieldOrder) THEN "DefaultsUsed"
    ELSE "PartialDefaults"

LoadMapperReport ==
    /\ pc = "mapper"
    /\ nEvents < Len(AbsentFields(payload))
    /\ LET e == DefaultEvent(AbsentFields(payload)[nEvents + 1])
       IN  /\ event' = e
           /\ nRecordable' = nRecordable + (IF IsRecordable(e) THEN 1 ELSE 0)
           /\ nFiltered' = nFiltered + (IF IsFiltered(e) THEN 1 ELSE 0)
    /\ nEvents' = nEvents + 1
    /\ pc' = "cb_append"
    /\ UNCHANGED <<api, settings, busContext, stream, classId, loadSettings,
                   deserializeErrors, parseResult, validateResult, className,
                   ids, anyData, payload, returned, userArgs, mapperResult,
                   result, streamReads, parserCalls, mapperCalls, coreSteps,
                   userCalls>>
    /\ UNCHANGED otherVars

LoadMapperReturn ==
    /\ pc = "mapper"
    /\ nEvents = Len(AbsentFields(payload))
    /\ objectToLoad' = LoadFields(objectToLoad, payload)
    /\ mapperResult' = ResultCode("Completed", LoadOutcome(payload))
    /\ pc' = "decide"
    /\ UNCHANGED <<api, settings, busContext, stream, classId, loadSettings,
                   deserializeErrors, parseResult, validateResult, className,
                   ids, anyData, payload, event, returned, userArgs, result,
                   streamReads, parserCalls, mapperCalls, nEvents, coreSteps,
                   userCalls, nRecordable, nFiltered>>
    /\ UNCHANGED <<saveVars, fileVars, concVars, objectBefore, extraVars>>

\* A save call is entered; no load call runs yet
SaveSettingsInputs ==
    {[present |-> FALSE, serializeContext |-> FALSE],
     [present |-> TRUE, serializeContext |-> FALSE],
     [present |-> TRUE, serializeContext |-> TRUE]}
NoStream == [length |-> 0, bytesRead |-> 0, text |-> Malformed]
NoSettings == [present |-> FALSE, serializeContext |-> FALSE, reporting |-> "None"]

SaveInit ==
    /\ saveApi \in {"SaveToStream", "SaveToFile"}
    /\ spc = "canwrite"
    /\ sClassId \in {"idA", "idC", "idD"}
    /\ object \in Objects
    /\ defaultObject \in Objects \cup {NoObject}
    /\ sSettings \in SaveSettingsInputs
    /\ busContext \in BOOLEAN
    \* the byte buffer of SaveObjectToFileByType is always writable
    /\ canWrite \in IF saveApi = "SaveToFile" THEN {TRUE} ELSE BOOLEAN
    \* the byte buffer of SaveObjectToFileByType grows as needed
    /\ streamTakes \in IF saveApi = "SaveToFile" THEN {MaxTaken} ELSE 0..MaxTaken
    /\ storeResult = NoCode
    /\ serializedObject = NoPayload
    /\ sDocument = <<>>
    /\ written = <<>>
    /\ writtenLength = 0
    /\ sResult = NoResult
    /\ storeCalls = 0
    /\ contextQueries = 0
    /\ RoundTripIdle
    /\ ConcIdle
    /\ ExtraIdle
    /\ fileApi = (IF saveApi = "SaveToFile" THEN "SaveToFile" ELSE "none")
    /\ fpc = (IF saveApi = "SaveToFile" THEN "inner" ELSE "idle")
    /\ handle = "unopened"
    /\ fileContent = "untouched"
    /\ fileResult = NoResult
    /\ api = "none"
    /\ pc = "idle"
    /\ settings = NoSettings
    /\ stream = NoStream
    /\ classId = NoId
    /\ LoadEntry

NextSave ==
    \/ SaveCheckStream
    \/ SaveResolveContext
    \/ SaveStore
    \/ SaveEnvelope
    \/ SaveWrite
    \/ SaveFileOpen
    \/ SaveFileWrite
    \/ FileScopeExit
    \/ BeginLoad
    \/ PrepareDeserializerSettings
    \/ CallLoadJson
    \/ CallValidateJsonClassHeader
    \/ ValidateClassName
    \/ InvokeMapper
    \/ LoadMapperReport
    \/ CallbackAppend
    \/ CallbackDelegate
    \/ CallbackReturn
    \/ LoadMapperReturn
    \/ ReturnVerdict

SpecSave == SaveInit /\ [][NextSave]_vars

(***************************************************************************)
(* LoadJson(filePath) and LoadAnyObjectFromFile: open the file, run the     *)
(* stream call on it, return                                               *)
(***************************************************************************)
OpenFailedError == <<"Failed to open '", "path", "'.">>
LoadFailedError(err) == <<"Failed to load '", "path", "'. ">> \o err
OpenForReadError == <<"Error opening file '", "path", "' for reading">>

\* if (!file.Open(path, ModeRead)) return Failure(...)
FileOpenForRead ==
    /\ fpc = "open"
    /\ \E opens \in BOOLEAN :
          IF opens
          THEN /\ handle' = "open"
               /\ fpc' = "inner"
               /\ pc' = (IF fileApi = "LoadAnyFile" THEN "prepare" ELSE pc)
               /\ fileResult' = fileResult
          ELSE /\ fileResult' = Failure(IF fileApi = "LoadAnyFile"
                                        THEN OpenForReadError
                                        ELSE OpenFailedError)
               /\ fpc' = "exit"
               /\ UNCHANGED <<handle, pc>>
    /\ UNCHANGED <<fileApi, fileContent>>
    /\ UNCHANGED <<api, settings, busContext, stream, classId, loadSettings,
                   deserializeErrors, parseResult, validateResult, className,
                   ids, anyData, payload, event, returned, userArgs,
                   mapperResult, result, streamReads, parserCalls, mapperCalls,
                   nEvents, nRecordable, nFiltered, coreSteps, userCalls>>
    /\ UNCHANGED <<saveVars, roundTripVars, concVars, extraVars>>

\* auto result = LoadJson(file); a failure is wrapped with the path
LoadJsonFileBody ==
    /\ fileApi = "LoadJsonFile"
    /\ fpc = "inner"
    /\ LET r == LoadJson(stream)
       IN  /\ parseResult' = r.res
           /\ streamReads' = streamReads + r.read
           /\ parserCalls' = parserCalls + r.parsed
           /\ fileResult' = IF ~r.res.ok THEN Failure(LoadFailedError(r.res.err))
                            ELSE r.res
    /\ fpc' = "exit"
    /\ UNCHANGED <<fileApi, handle, fileContent>>
    /\ UNCHANGED <<api, pc, settings, busContext, stream, classId, loadSettings,
                   deserializeErrors, validateResult, className, ids, anyData,
                   payload, event, returned, userArgs, mapperResult, result,
                   mapperCalls, nEvents, nRecordable, nFiltered, coreSteps,
                   userCalls>>
    /\ UNCHANGED <<saveVars, roundTripVars, concVars, extraVars>>

\* return LoadAnyObjectFromStream(inputFileStream, settings)
LoadAnyFileReturn ==
    /\ fileApi = "LoadAnyFile"
    /\ fpc = "inner"
    /\ pc = "done"
    /\ fileResult' = result
    /\ fpc' = "exit"
    /\ UNCHANGED <<fileApi, handle, fileContent>>
    /\ UNCHANGED <<loadVars, saveVars, roundTripVars, concVars, extraVars>>

\* The settings a file load is entered with in SpecFile
FileSettingsInputs ==
    {s \in SettingsInputs : ~s.present \/ (s.serializeContext /\ s.reporting = "Echo")}

FileInit ==
    \/ SaveInit /\ saveApi = "SaveToFile"
    \/ /\ SaveIdle
       /\ RoundTripIdle
       /\ ConcIdle
          /\ ExtraIdle
       /\ fileApi \in {"LoadJsonFile", "LoadAnyFile"}
       /\ fpc = "open"
       /\ handle = "unopened"
       /\ fileContent = "untouched"
       /\ fileResult = NoResult
       /\ api = (IF fileApi = "LoadAnyFile" THEN "LoadAny" ELSE "none")
       /\ pc = "idle"
       /\ settings \in IF fileApi = "LoadAnyFile" THEN FileSettingsInputs
                       ELSE {NoSettings}
       /\ busContext \in IF fileApi = "LoadAnyFile" /\ ~settings.serializeContext
                         THEN BOOLEAN ELSE {FALSE}
       /\ stream \in Streams
       /\ classId = NoId
       /\ LoadEntry

NextFile ==
    \/ FileOpenForRead
    \/ LoadJsonFileBody
    \/ LoadAnyFileReturn
    \/ FileScopeExit
    \/ PrepareDeserializerSettings
    \/ CallLoadJson
    \/ CallValidateJsonClassHeader
    \/ ResolveClassName
    \/ InvokeMapper
    \/ MapperReport
    \/ CallbackAppend
    \/ CallbackDelegate
    \/ CallbackReturn
    \/ MapperReturn
    \/ ReturnVerdict
    \/ SaveCheckStream
    \/ SaveResolveContext
    \/ SaveStore
    \/ SaveEnvelope
    \/ SaveWrite
    \/ SaveFileOpen
    \/ SaveFileWrite

SpecFile == FileInit /\ [][NextFile]_vars

(***************************************************************************)
(* Two load calls side by side, from the installation of the reporting     *)
(* callback to the verdict; their steps interleave event by event          *)
(***************************************************************************)
CallIds == {1, 2}
OtherCall(c) == 3 - c
ConcTarget(c) == IF c = 1 THEN "/call1" ELSE "/call2"
ConcEvents(c) ==
    [message : Messages, result : ResultCodes,
     target : {View(ConcTarget(c), ConcTarget(c))}]

\* Mutant of CallbackBuffer: every callback appends to the first call's buffer
CallbackBuffer_Shared(c) == 1
\* AZStd::string deserializeErrors; [&deserializeError, reporting]: the
\* callback of a call holds a reference to the buffer local to that call
CallbackBuffer(c) == c

ConcEntry(reporting) ==
    [pc |-> "prepare",
     settings |-> [present |-> TRUE, serializeContext |-> TRUE, reporting |-> reporting],
     loadSettings |-> DefaultSettings,
     deserializeErrors |-> <<>>,
     event |-> NoEvent,
     mapperResult |-> NoCode,
     result |-> NoResult,
     nEvents |-> 0,
     own |-> <<>>]

\* returnSettings = *inputSettings; the callback is installed
ConcPrepare ==
    \E c \in CallIds :
       /\ calls[c].pc = "prepare"
       /\ calls' = [calls EXCEPT
             ![c].loadSettings = [serializeContext |-> calls[c].settings.serializeContext,
                                  reporting |-> calls[c].settings.reporting,
                                  installed |-> TRUE],
             ![c].pc = "mapper"]
       /\ UNCHANGED <<loadVars, saveVars, roundTripVars, fileVars, extraVars>>

\* The mapper of call c reports an event to the callback of call c
ConcMapperReport ==
    \E c \in CallIds :
       /\ calls[c].pc = "mapper"
       /\ calls[c].nEvents < MaxEvents
       /\ \E e \in ConcEvents(c) :
             calls' = [calls EXCEPT
                ![c].event = e,
                ![c].nEvents = @ + 1,
                ![c].pc = "callback"]
       /\ UNCHANGED <<loadVars, saveVars, roundTripVars, fileVars, extraVars>>

\* issueReportingCallback of call c: append to the buffer it captured, hand
\* the event to the caller's callback, return to the mapper
ConcCallback ==
    \E c \in CallIds :
       /\ calls[c].pc = "callback"
       /\ LET e == calls[c].event
              b == CallbackBuffer(c)
          IN  calls' = [calls EXCEPT
                 ![b].deserializeErrors =
                     AppendDiagnostic(@, e.message, e.result, e.target),
                 \* what the events of call c amount to, in the words of the
                 \* specification
                 ![c].own = IF IsRecordable(e)
                            THEN @ \o <<e.message, " '", e.target.view, "' \n">>
                            ELSE @,
                 ![c].event = NoEvent,
                 ![c].pc = "mapper"]
       /\ UNCHANGED <<loadVars, saveVars, roundTripVars, fileVars, extraVars>>

ConcMapperReturn ==
    \E c \in CallIds :
       /\ calls[c].pc = "mapper"
       /\ \E code \in ResultCodes :
             calls' = [calls EXCEPT ![c].mapperResult = code, ![c].pc = "decide"]
       /\ UNCHANGED <<loadVars, saveVars, roundTripVars, fileVars, extraVars>>

ConcReturnVerdict ==
    \E c \in CallIds :
       /\ calls[c].pc = "decide"
       /\ calls' = [calls EXCEPT
             ![c].result = LoadVerdict(calls[c].mapperResult,
                                       calls[c].deserializeErrors, NoValue),
             ![c].pc = "done"]
       /\ UNCHANGED <<loadVars, saveVars, roundTripVars, fileVars, extraVars>>

ConcInit ==
    /\ calls \in [CallIds -> {ConcEntry(r) : r \in {"None", "Echo"}}]
    /\ ExtraIdle
    /\ SaveIdle
    /\ RoundTripIdle
    /\ FileIdle
    /\ api = "none"
    /\ pc = "idle"
    /\ settings = NoSettings
    /\ busContext = FALSE
    /\ stream = NoStream
    /\ classId = NoId
    /\ LoadEntry

NextConc ==
    \/ ConcPrepare
    \/ ConcMapperReport
    \/ ConcCallback
    \/ ConcMapperReturn
    \/ ConcReturnVerdict

SpecConc == ConcInit /\ [][NextConc]_vars

(***************************************************************************)
(* LoadObjectFromStreamByType with its target object: the stages of the    *)
(* call and what the mapper does to the target                             *)
(***************************************************************************)
StageSettingsInputs ==
    {s \in SettingsInputs : ~s.present \/ s.reporting = "None"}

\* JsonSerialization::Load decodes the payload into the target: while it
\* runs, the fields of the target may change
MapperWrites ==
    /\ pc = "mapper"
    /\ \E o \in Objects \ {objectToLoad} : objectToLoad' = o
    /\ UNCHANGED <<loadVars, saveVars, fileVars, concVars, objectBefore, extraVars>>

StagesInit ==
    /\ api = "LoadObject"
    /\ pc = "prepare"
    /\ settings \in StageSettingsInputs
    /\ busContext \in IF settings.serializeContext THEN {FALSE} ELSE BOOLEAN
    /\ stream \in Streams
    /\ classId \in {"idA", "idC", "idD"}
    /\ LoadEntry
    /\ objectToLoad = TypeDefault
    /\ objectBefore = TypeDefault
    /\ SaveIdle
    /\ FileIdle
    /\ ConcIdle
    /\ ExtraIdle

NextStages ==
    \/ PrepareDeserializerSettings
    \/ CallLoadJson
    \/ CallValidateJsonClassHeader
    \/ ValidateClassName
    \/ InvokeMapper
    \/ MapperReport
    \/ MapperWrites
    \/ CallbackAppend
    \/ CallbackDelegate
    \/ CallbackReturn
    \/ MapperReturn
    \/ ReturnVerdict

SpecStages == StagesInit /\ [][NextStages]_vars

(***************************************************************************)
(* ParseJson: the parse, and the line number of a parse error              *)
(***************************************************************************)
MaxTextLen == 3
NewLine == "\n"
Characters == {NewLine, "{"}
JsonTexts == UNION {[1..n -> Characters] : n \in 0..MaxTextLen}
\* AZStd::string::npos: above every offset
Npos == 2147483647

\* jsonText.find('\n', pos): offsets count from 0
Find(text, pos) ==
    LET hits == {i \in pos..(Len(text) - 1) : text[i + 1] = NewLine}
    IN  IF hits = {} THEN Npos
        ELSE CHOOSE i \in hits : \A j \in hits : i <= j

\* Mutant of LoopContinues: a newline at the error offset is counted too
LoopContinues_Inclusive(s, e) == s <= e /\ s < Npos
\* searchOffset < errorOffset && searchOffset < AZStd::string::npos
LoopContinues(s, e) == s < e /\ s < Npos

\* No load call is running
LoadIdle ==
    /\ api = "none"
    /\ pc = "idle"
    /\ settings = NoSettings
    /\ busContext = FALSE
    /\ stream = NoStream
    /\ classId = NoId
    /\ LoadEntry

\* None of the load, save, file and side-by-side calls is running
CoreIdle ==
    /\ LoadIdle
    /\ SaveIdle
    /\ RoundTripIdle
    /\ FileIdle
    /\ ConcIdle

\* jsonDocument.Parse(...); on an error lineNumber = 1 and the first find
ParseBegin ==
    /\ ppc = "parse"
    /\ IF hasParseError
       THEN /\ lineNumber' = 1
            /\ searchOffset' = Find(jsonText, 0)
            /\ ppc' = "loop"
            /\ pResult' = pResult
       ELSE /\ pResult' = Success(NoDocument)
            /\ ppc' = "done"
            /\ UNCHANGED <<lineNumber, searchOffset>>
    /\ UNCHANGED <<jsonText, hasParseError, errorOffset>>
    /\ UNCHANGED <<coreVars, warnVars, invokeVars, pendingVars>>

\* One round of the for loop: lineNumber++ and the next find
ParseLoopStep ==
    /\ ppc = "loop"
    /\ LoopContinues(searchOffset, errorOffset)
    /\ lineNumber' = lineNumber + 1
    /\ searchOffset' = Find(jsonText, searchOffset + 1)
    /\ UNCHANGED <<jsonText, hasParseError, errorOffset, ppc, pResult>>
    /\ UNCHANGED <<coreVars, warnVars, invokeVars, pendingVars>>

\* The loop condition fails: return Failure("JSON parse error at line ...")
ParseLoopExit ==
    /\ ppc = "loop"
    /\ ~LoopContinues(searchOffset, errorOffset)
    /\ pResult' = Failure(ParseError)
    /\ ppc' = "done"
    /\ UNCHANGED <<jsonText, hasParseError, errorOffset, searchOffset, lineNumber>>
    /\ UNCHANGED <<coreVars, warnVars, invokeVars, pendingVars>>

ParseInit ==
    /\ jsonText \in JsonTexts
    /\ hasParseError \in BOOLEAN
    /\ errorOffset \in IF hasParseError THEN 0..Len(jsonText) ELSE {0}
    /\ searchOffset = 0
    /\ lineNumber = 0
    /\ ppc = "parse"
    /\ pResult = NoResult
    /\ CoreIdle
    /\ WarnIdle
    /\ HandlerIdle

NextParse ==
    \/ ParseBegin
    \/ ParseLoopStep
    \/ ParseLoopExit

\* The call runs on its own thread of control and is not suspended for ever
SpecParse == ParseInit /\ [][NextParse]_vars /\ WF_vars(NextParse)

(***************************************************************************)
(* ReportCommonWarnings                                                    *)
(***************************************************************************)
MaxPathLen == 2
\* JsonSerializationResult::Outcomes, in the order of the enumeration
OutcomeOrder ==
    <<"Success", "Skipped", "PartialSkip", "DefaultsUsed", "PartialDefaults",
      "Unavailable", "Unsupported", "TypeMismatch", "TestFailed", "Missing",
      "Invalid", "Unknown", "Catastrophic">>
OutcomeRank(o) == CHOOSE i \in DOMAIN OutcomeOrder : OutcomeOrder[i] = o
\* The processing status a result code of that outcome is built with
DerivedCode(o) ==
    ResultCode(IF OutcomeRank(o) <= OutcomeRank("PartialDefaults") THEN "Completed"
               ELSE IF OutcomeRank(o) <= OutcomeRank("Unsupported") THEN "Altered"
               ELSE "Halted", o)
WarnCodes == {DerivedCode(OutcomeOrder[i]) : i \in DOMAIN OutcomeOrder}

\* Paths are JSON pointers: each segment is written after a '/'
SegmentChars == {"#", "a"}
Segments == UNION {[1..n -> SegmentChars] : n \in 0..2}
Paths == UNION {[1..n -> Segments] : n \in 0..MaxPathLen}
RECURSIVE PathText(_)
PathText(segs) ==
    IF segs = <<>> THEN <<>>
    ELSE <<"/">> \o Head(segs) \o PathText(Tail(segs))

\* text.find(sub): the first offset at which sub occurs, or npos
FindText(text, sub) ==
    LET hits == {i \in 0..(Len(text) - Len(sub)) :
                    \A k \in 1..Len(sub) : text[i + k] = sub[k]}
    IN  IF hits = {} THEN Npos
        ELSE CHOOSE i \in hits : \A j \in hits : i <= j

\* Mutant of IsCommentPath: any '#' in the path marks a comment
IsCommentPath_AnyHash(text) == FindText(text, <<"#">>) # Npos
\* path.find("/#") != npos
IsCommentPath(text) == FindText(text, <<"/", "#">>) # Npos

SkippedWarning(segs) == [kind |-> "Skipped unrecognized field", path |-> segs]
ResultWarning(segs, code) ==
    [kind |-> "result", path |-> segs, text |-> StoreError(code)]

ReportCommonWarnings(message, code, segs) ==
    [returned |-> code,
     warnings |->
        IF code.outcome = "Skipped"
        THEN IF ~IsCommentPath(PathText(segs)) THEN <<SkippedWarning(segs)>> ELSE <<>>
        ELSE IF \/ code.processing # "Completed"
                \/ OutcomeRank(code.outcome) >= OutcomeRank("Unsupported")
             THEN <<ResultWarning(segs, code)>>
             ELSE <<>>]

CallReportCommonWarnings ==
    /\ wpc = "call"
    /\ LET r == ReportCommonWarnings("", wResult, wPath)
       IN  /\ wReturned' = r.returned
           /\ wWarnings' = r.warnings
    /\ wpc' = "done"
    /\ UNCHANGED <<wResult, wPath>>
    /\ UNCHANGED <<coreVars, parseVars, invokeVars, pendingVars>>

WarnInit ==
    /\ wResult \in WarnCodes
    /\ wPath \in Paths
    /\ wReturned = NoCode
    /\ wWarnings = <<>>
    /\ wpc = "call"
    /\ CoreIdle
    /\ ParseIdle
    /\ HandlerIdle

NextWarn == CallReportCommonWarnings

SpecWarn == WarnInit /\ [][NextWarn]_vars

(***************************************************************************)
(* AssetRequestHandler::InvokeHandler: the requests the handler answers    *)
(* itself, the ones it only acts on, and the ones it hands to a registered *)
(* handler                                                                 *)
(***************************************************************************)
\* Message types with an asset id (or uuid) and a path (or search term)
InfoTypes == {"SourceAssetInfoRequest", "AssetInfoRequest",
              "RequestEscalateAsset"}
\* Message types with an asset id only
IdOnlyTypes == {"SourceAssetProductsInfoRequest"}
\* Message types the handler answers with a SendResponse of its own
AnsweredTypes == {"GetFullSourcePathFromRelativeProductPathRequest",
                  "GetRelativeProductPathFromFullSourceOrProductPathRequest",
                  "SourceAssetInfoRequest", "SourceAssetProductsInfoRequest",
                  "GetScanFoldersRequest", "GetAssetSafeFoldersRequest",
                  "AssetInfoRequest"}
\* Message types the handler acts on without a response
SilentTypes == {"RegisterSourceAssetRequest", "UnregisterSourceAssetRequest",
                "RequestEscalateAsset"}
\* "Custom" stands for a message id outside the ones the handler names
MessageTypes == AnsweredTypes \cup SilentTypes
                    \cup {"RequestAssetStatus", "Custom"}

\* A message: its GetMessageType(), whether azrtti_cast to the class of
\* that type succeeds, whether its asset id is valid and its path is empty
HandlerMessages ==
    { m \in [type : MessageTypes, castOk : BOOLEAN, idValid : BOOLEAN,
             pathEmpty : BOOLEAN] :
        /\ m.type \notin InfoTypes \cup IdOnlyTypes => ~m.idValid
        /\ m.type \notin InfoTypes => m.pathEmpty }

\* The message ids RegisterRequestHandler and DeRegisterRequestHandler are
\* called with
RegistrableTypes == {"RequestAssetStatus", "Custom", "GetScanFoldersRequest"}

\* ConnectionBus SendResponse(key.second, response) on connection key.first
Response(key, type) == [key |-> key, type |-> type]
FoundResponse(key, type, found) == [key |-> key, type |-> type, found |-> found]

Outcome(responses, other, delete) ==
    [responses |-> responses, calls |-> other, delete |-> delete]

\* The branch for SourceAssetInfoRequest
SourceAssetInfoBranch(message, key, busFound) ==
    LET byId == FoundResponse(key, "SourceAssetInfoResponse", busFound)
        byPath == FoundResponse(key, "SourceAssetInfoResponse", busFound)
        default == FoundResponse(key, "SourceAssetInfoResponse", FALSE)
    IN  IF message.idValid THEN Outcome(<<byId, byId>>, <<>>, TRUE)
        ELSE IF ~message.pathEmpty THEN Outcome(<<byPath>>, <<>>, TRUE)
        ELSE Outcome(<<default>>, <<>>, TRUE)

\* The branch for SourceAssetProductsInfoRequest
SourceAssetProductsInfoBranch(message, key, busFound) ==
    LET byId == FoundResponse(key, "SourceAssetProductsInfoResponse", busFound)
        default == FoundResponse(key, "SourceAssetProductsInfoResponse", FALSE)
    IN  IF message.idValid THEN Outcome(<<byId, byId>>, <<>>, TRUE)
        ELSE Outcome(<<default>>, <<>>, TRUE)

\* The branch for AssetInfoRequest
AssetInfoBranch(message, key, busFound) ==
    LET byId == FoundResponse(key, "AssetInfoResponse", busFound)
        byPath == FoundResponse(key, "AssetInfoResponse", busFound)
        default == FoundResponse(key, "AssetInfoResponse", FALSE)
    IN  IF message.idValid THEN Outcome(<<byId>>, <<>>, TRUE)
        ELSE IF ~message.pathEmpty THEN Outcome(<<byPath>>, <<>>, TRUE)
        ELSE Outcome(<<default>>, <<>>, TRUE)

\* The branch for RequestEscalateAsset
RequestEscalateAssetBranch(message) ==
    IF message.idValid
    THEN Outcome(<<>>, <<"RequestEscalateAssetByUuid">>, TRUE)
    ELSE IF ~message.pathEmpty
    THEN Outcome(<<>>, <<"RequestEscalateAssetBySearchTerm">>, TRUE)
    ELSE Outcome(<<>>, <<>>, TRUE)

\* The final else: a registered handler is invoked through the queue and
\* keeps the message, an unknown type is ignored
RegisteredHandlerBranch(message, handlers) ==
    IF message.type \notin handlers
    THEN Outcome(<<>>, <<>>, TRUE)
    ELSE Outcome(<<>>, <<"RequestReady">>, FALSE)

\* What one call of InvokeHandler does
InvokeHandlerOutcome(message, key, busFound, handlers) ==
    IF message.type \in AnsweredTypes \cup SilentTypes /\ ~message.castOk
    THEN Outcome(<<>>, <<>>, TRUE)
    ELSE CASE message.type = "GetFullSourcePathFromRelativeProductPathRequest" ->
                Outcome(<<FoundResponse(key,
                    "GetFullSourcePathFromRelativeProductPathResponse",
                    busFound)>>, <<>>, TRUE)
           [] message.type =
                "GetRelativeProductPathFromFullSourceOrProductPathRequest" ->
                Outcome(<<FoundResponse(key,
                    "GetRelativeProductPathFromFullSourceOrProductPathResponse",
                    busFound)>>, <<>>, TRUE)
           [] message.type = "SourceAssetInfoRequest" ->
                SourceAssetInfoBranch(message, key, busFound)
           [] message.type = "SourceAssetProductsInfoRequest" ->
                SourceAssetProductsInfoBranch(message, key, busFound)
           [] message.type = "GetScanFoldersRequest" ->
                Outcome(<<Response(key, "GetScanFoldersResponse")>>, <<>>, TRUE)
           [] message.type = "GetAssetSafeFoldersRequest" ->
                Outcome(<<Response(key, "GetAssetSafeFoldersResponse")>>,
                        <<>>, TRUE)
           [] message.type = "RegisterSourceAssetRequest" ->
                Outcome(<<>>, <<"RegisterSourceAssetType">>, TRUE)
           [] message.type = "UnregisterSourceAssetRequest" ->
                Outcome(<<>>, <<"UnregisterSourceAssetType">>, TRUE)
           [] message.type = "RequestEscalateAsset" ->
                RequestEscalateAssetBranch(message)
           [] message.type = "AssetInfoRequest" ->
                AssetInfoBranch(message, key, busFound)
           [] OTHER -> RegisteredHandlerBranch(message, handlers)

InvokeHandler ==
    \E message \in HandlerMessages, key \in NetworkRequestIds,
       fencingFailed \in BOOLEAN, busFound \in BOOLEAN :
        LET out == InvokeHandlerOutcome(message, key, busFound,
                                        requestHandlerMap)
        IN  /\ hMessage' = message
            /\ hKey' = key
            /\ hFencingFailed' = fencingFailed
            /\ hResponses' = out.responses
            /\ hQueued' = out.calls
            /\ hDelete' = out.delete
            /\ UNCHANGED requestHandlerMap
            /\ UNCHANGED <<coreVars, parseVars, warnVars, pendingVars>>

\* m_RequestHandlerMap.insert(messageId, object)
RegisterRequestHandler ==
    \E messageId \in RegistrableTypes :
        /\ requestHandlerMap' = requestHandlerMap \cup {messageId}
        /\ UNCHANGED <<hMessage, hKey, hFencingFailed, hResponses, hQueued,
                       hDelete>>
        /\ UNCHANGED <<coreVars, parseVars, warnVars, pendingVars>>

\* find, and erase when found
DeRegisterRequestHandler ==
    \E messageId \in RegistrableTypes :
        /\ requestHandlerMap' =
                IF messageId \notin requestHandlerMap
                THEN requestHandlerMap
                ELSE requestHandlerMap \ {messageId}
        /\ UNCHANGED <<hMessage, hKey, hFencingFailed, hResponses, hQueued,
                       hDelete>>
        /\ UNCHANGED <<coreVars, parseVars, warnVars, pendingVars>>

InvokeInit ==
    /\ CoreIdle
    /\ ParseIdle
    /\ WarnIdle
    /\ HandlerIdle

NextInvoke ==
    \/ InvokeHandler
    \/ RegisterRequestHandler
    \/ DeRegisterRequestHandler

SpecInvoke == InvokeInit /\ [][NextInvoke]_vars

(***************************************************************************)
(* Asset status requests: ProcessAssetRequest puts a request into          *)
(* m_pendingAssetRequests, and the events that come back for its id        *)
(* answer it.  The events arrive from other objects through the Qt event   *)
(* queue, in any order and any number of times.                            *)
(***************************************************************************)
MaxRequests == 2

\* enum AssetStatus
AssetStatuses ==
    {"Unknown", "Missing", "Queued", "Compiling", "Compiled", "Failed"}

\* AssetRequestLine, with the number of the ProcessAssetRequest call that
\* made it
Line(instance, searchTermEmpty, assetIdValid, isStatusRequest) ==
    [instance |-> instance, searchTermEmpty |-> searchTermEmpty,
     assetIdValid |-> assetIdValid, isStatusRequest |-> isStatusRequest]

\* m_pendingAssetRequests.insert(networkRequestId, newLine).  The type of
\* the map is declared in AssetRequestHandler.h: a single-valued Qt map
\* replaces the line stored under the id, a multi-valued one keeps it and
\* puts the new line before it.
InsertLine(map, id, line) ==
    [map EXCEPT ![id] = IF multiValued THEN <<line>> \o @ ELSE <<line>>]

\* m_pendingAssetRequests.find(groupID): the line put in last under the id,
\* NoLine standing for end()
FindLine(map, id) == IF map[id] = <<>> THEN NoLine ELSE Head(map[id])

\* m_pendingAssetRequests.erase(located): the located line goes, the lines
\* put in before it stay
EraseLine_Keep(map, id) == map
EraseLine(map, id) == [map EXCEPT ![id] = Tail(@)]

\* SendAssetStatus, recorded under the request the response is made for
SendAssetStatus(sent, instance, status) ==
    [sent EXCEPT ![instance] = Append(@, status)]

HandlerEvent(kind, id) == [kind |-> kind, id |-> id]

ProcessAssetRequest ==
    \E networkRequestId \in NetworkRequestIds, isStat \in BOOLEAN,
       searchTermEmpty \in BOOLEAN, assetIdValid \in BOOLEAN,
       isStatusRequest \in BOOLEAN :
        /\ received < MaxRequests
        /\ received' = received + 1
        /\ hEvent' = HandlerEvent("ProcessAssetRequest", networkRequestId)
        /\ IF ~isStat
           THEN /\ statusSent' = Append(statusSent, <<>>)
                /\ hSignal' = "none"
                /\ UNCHANGED pendingAssetRequests
           ELSE IF searchTermEmpty /\ ~assetIdValid
           THEN /\ statusSent' = SendAssetStatus(Append(statusSent, <<>>),
                                                 received + 1, "Unknown")
                /\ hSignal' = "none"
                /\ UNCHANGED pendingAssetRequests
           ELSE /\ pendingAssetRequests' =
                        InsertLine(pendingAssetRequests, networkRequestId,
                                   Line(received + 1, searchTermEmpty,
                                        assetIdValid, isStatusRequest))
                /\ statusSent' = Append(statusSent, <<>>)
                /\ hSignal' = "RequestCompileGroup"
        /\ UNCHANGED multiValued
        /\ UNCHANGED <<coreVars, parseVars, warnVars, invokeVars>>

OnCompileGroupCreated ==
    \E groupID \in NetworkRequestIds, status \in AssetStatuses :
        LET located == FindLine(pendingAssetRequests, groupID)
        IN  /\ hEvent' = HandlerEvent("OnCompileGroupCreated", groupID)
            /\ IF located = NoLine
               THEN /\ hSignal' = "none"
                    /\ UNCHANGED <<pendingAssetRequests, statusSent>>
               ELSE IF status = "Unknown"
               THEN /\ hSignal' = "RequestAssetExists"
                    /\ UNCHANGED <<pendingAssetRequests, statusSent>>
               ELSE IF located.isStatusRequest
               THEN /\ statusSent' =
                            SendAssetStatus(statusSent, located.instance, status)
                    /\ pendingAssetRequests' =
                            EraseLine(pendingAssetRequests, groupID)
                    /\ hSignal' = "none"
               ELSE /\ hSignal' = "none"
                    /\ UNCHANGED <<pendingAssetRequests, statusSent>>
            /\ UNCHANGED <<received, multiValued>>
            /\ UNCHANGED <<coreVars, parseVars, warnVars, invokeVars>>

OnCompileGroupFinished ==
    \E groupID \in NetworkRequestIds, status \in AssetStatuses :
        LET located == FindLine(pendingAssetRequests, groupID)
        IN  /\ hEvent' = HandlerEvent("OnCompileGroupFinished", groupID)
            /\ IF located = NoLine
               THEN /\ hSignal' = "none"
                    /\ UNCHANGED <<pendingAssetRequests, statusSent>>
               ELSE IF located.assetIdValid
               THEN /\ hSignal' = "RequestAssetExists"
                    /\ UNCHANGED <<pendingAssetRequests, statusSent>>
               ELSE /\ statusSent' =
                            SendAssetStatus(statusSent, located.instance, status)
                    /\ pendingAssetRequests' =
                            EraseLine(pendingAssetRequests, groupID)
                    /\ hSignal' = "none"
            /\ UNCHANGED <<received, multiValued>>
            /\ UNCHANGED <<coreVars, parseVars, warnVars, invokeVars>>

OnRequestAssetExistsResponse ==
    \E groupID \in NetworkRequestIds, exists \in BOOLEAN :
        LET located == FindLine(pendingAssetRequests, groupID)
        IN  /\ hEvent' = HandlerEvent("OnRequestAssetExistsResponse", groupID)
            /\ IF located = NoLine
               THEN /\ hSignal' = "none"
                    /\ UNCHANGED <<pendingAssetRequests, statusSent>>
               ELSE /\ statusSent' =
                            SendAssetStatus(statusSent, located.instance,
                                IF exists THEN "Compiled" ELSE "Missing")
                    /\ pendingAssetRequests' =
                            EraseLine(pendingAssetRequests, groupID)
                    /\ hSignal' = "none"
            /\ UNCHANGED <<received, multiValued>>
            /\ UNCHANGED <<coreVars, parseVars, warnVars, invokeVars>>

PendingInit ==
    /\ CoreIdle
    /\ ParseIdle
    /\ WarnIdle
    /\ InvokeIdle
    /\ pendingAssetRequests = [k \in NetworkRequestIds |-> <<>>]
    /\ multiValued \in BOOLEAN
    /\ received = 0
    /\ statusSent = <<>>
    /\ hSignal = "none"
    /\ hEvent = NoHandlerEvent

NextPending ==
    \/ ProcessAssetRequest
    \/ OnCompileGroupCreated
    \/ OnCompileGroupFinished
    \/ OnRequestAssetExistsResponse

SpecPending == PendingInit /\ [][NextPending]_vars

(***************************************************************************)
(* Properties                                                              *)
(***************************************************************************)
MapperHasReturned == mapperResult # NoCode
HasText(text, piece) == \E i \in DOMAIN text : text[i] = piece

\* C1: in LoadObjectFromStreamByType, once the object mapper has returned,
\* the call returns success exactly when the mapper's final outcome is
\* Success, DefaultsUsed or PartialDefaults and the diagnostics buffer is
\* empty; otherwise it returns failure carrying the diagnostics buffer.
C1_VerdictIffSuccessAndNoDiagnostics ==
    (api = "LoadObject" /\ pc = "done" /\ MapperHasReturned) =>
        /\ result.set
        /\ result.ok <=> (mapperResult.outcome \in SuccessCategories
                            /\ deserializeErrors = <<>>)
        /\ ~result.ok => result.err = deserializeErrors

C1_Witness ==
    /\ api = "LoadObject" /\ pc = "done" /\ MapperHasReturned
    /\ mapperResult.outcome = "PartialDefaults"
    /\ nEvents = MaxEvents
    /\ result.ok

\* A root that is no object has no members: its Type is missing
TypeCheckFails(doc) ==
    \/ ~IsObjectRoot(doc)
    \/ doc.Type.kind # "string"
    \/ doc.Type.s \notin {"JsonSerialization", "jsonserialization"}
ClassNameCheckFails(doc) == doc.ClassName.kind # "string"
ClassDataCheckFails(doc) == doc.ClassData.kind \notin {"absent", "object"}

\* The call stopped in ValidateJsonClassHeader on an invalid read
ValidateCrashed ==
    /\ pc = "crash"
    /\ parseResult.ok
    /\ ~validateResult.set

\* C2: ValidateJsonClassHeader checks Type, then ClassName, then ClassData,
\* and returns the message of the first failing check only: every parsed
\* document is given a result, "Not a valid JsonSerialization file" when its
\* Type is missing, no string or not the sentinel, whatever the other
\* members are.
C2_FirstFailingCheckWins ==
    /\ ~ValidateCrashed
    /\ validateResult.set =>
        LET doc == jsonDocument
        IN  /\ TypeCheckFails(doc) =>
                validateResult = Failure(<<"Not a valid JsonSerialization file">>)
            /\ (~validateResult.ok /\ validateResult.err = <<"File should contain ClassName">>)
                  => ~TypeCheckFails(doc) /\ ClassNameCheckFails(doc)
            /\ (~validateResult.ok /\ validateResult.err = <<"ClassData should be an object">>)
                  => /\ ~TypeCheckFails(doc)
                     /\ ~ClassNameCheckFails(doc)
                     /\ ClassDataCheckFails(doc)
            /\ validateResult.ok =>
                  /\ ~TypeCheckFails(doc)
                  /\ ~ClassNameCheckFails(doc)
                  /\ ~ClassDataCheckFails(doc)

\* C3: a load whose mapper returns outcome Success, but during which at
\* least one diagnostic was recorded, returns failure, and the failure text
\* is exactly the accumulated diagnostics (four pieces per recorded event).
C3_SuccessWithDiagnosticsFails ==
    (pc = "done" /\ MapperHasReturned /\ mapperResult.outcome = "Success"
        /\ nRecordable >= 1) =>
        /\ result.set /\ ~result.ok
        /\ result.err = deserializeErrors
        /\ Len(result.err) = 4 * nRecordable

C3_Witness ==
    /\ pc = "done" /\ api = "LoadObject"
    /\ mapperResult = ResultCode("Completed", "Success")
    /\ nRecordable = 1
    /\ result = Failure(<<"Unknown field", " '", "/a", "' \n">>)

\* C4: a load in which every non-success event carries the uuid message and
\* whose final outcome is a success category returns success with an empty
\* diagnostics buffer, whatever the number and order of such events.
C4_UuidMessageSuppressed ==
    (pc \in {"decide", "done"} /\ MapperHasReturned /\ nRecordable = 0
        /\ mapperResult.outcome \in SuccessCategories) =>
        /\ deserializeErrors = <<>>
        /\ pc = "done" => result.set /\ result.ok

C4_Witness ==
    /\ pc = "done"
    /\ mapperResult.outcome \in SuccessCategories
    /\ nFiltered = MaxEvents
    /\ result.ok

\* C5: for every event passed to the installed callback, the message
\* followed by the target path (the characters of the view handed in) is
\* appended to the diagnostics buffer exactly
\* when the outcome is none of Success, DefaultsUsed, PartialDefaults and the
\* message is not the uuid message; no other event and no other step
\* changes the buffer.
C5_AppendIffNotSuccessCategory ==
    [][/\ pc = "cb_append" =>
            deserializeErrors' =
                IF IsRecordable(event)
                THEN deserializeErrors \o
                        <<event.message, " '", event.target.view, "' \n">>
                ELSE deserializeErrors
       /\ pc # "cb_append" => deserializeErrors' = deserializeErrors]_vars

\* C6: when the caller's settings carry a reporting callback, the installed
\* callback invokes it exactly once per event, after its own append-or-skip
\* step, with the same message, result and path, and returns the caller
\* callback's return value; without a caller callback it returns the
\* incoming result unchanged.
C6_CallerCallbackChained ==
    LET chained == settings.present /\ settings.reporting # "None"
    IN  /\ userCalls <= coreSteps
        /\ pc = "cb_return" =>
              /\ coreSteps = nEvents
              /\ IF chained
                 THEN /\ userCalls = nEvents
                      /\ userArgs = event
                      /\ returned = UserReporting(settings.reporting, event.message,
                                                  event.result, event.target)
                 ELSE /\ userCalls = 0
                      /\ userArgs = NoEvent
                      /\ returned = event.result
        /\ pc \in {"mapper", "decide", "done"} /\ mapperCalls = 1 =>
              userCalls = IF chained THEN nEvents ELSE 0

C6_Witness ==
    /\ pc = "cb_return"
    /\ settings.reporting = "ToHalted"
    /\ event.result = ResultCode("Completed", "Success")
    /\ returned = ResultCode("Halted", "Unsupported")
    /\ userArgs = event
    /\ userCalls = MaxEvents

\* C7: LoadObjectFromStreamByType on a header-valid document whose ClassName
\* does not match (azstricmp: ignoring case) the registered name of the
\* requested class id returns a failure naming both the requested type and
\* the stored ClassName, and the object mapper is not invoked.
C7_Mismatch ==
    /\ api = "LoadObject"
    /\ validateResult.set /\ validateResult.ok
    /\ IsObjectRoot(jsonDocument)
    /\ classId \in RegisteredIds
    /\ ToLower(jsonDocument.ClassName.s) # ToLower(ClassName(classId))

C7_ClassNameMismatchFails ==
    C7_Mismatch =>
        /\ mapperCalls = 0
        /\ pc \in {"resolve", "done"}
        /\ pc = "done" =>
              /\ result.set /\ ~result.ok
              /\ HasText(result.err, ClassName(classId))
              /\ HasText(result.err, jsonDocument.ClassName.s)
              /\ result.err = <<"Try to load class ", ClassName(classId),
                                " from class ", jsonDocument.ClassName.s, " data">>

C7_Witness ==
    /\ C7_Mismatch
    /\ pc = "done"
    /\ classId = "idC"
    /\ jsonDocument.ClassName = Str("Foo")
    /\ HasText(result.err, "Bar") /\ HasText(result.err, "Foo")

\* C8: LoadAnyObjectFromStream on a parsed document that fails header
\* validation ends with a failure carrying the first failing check's
\* message, without reading ClassName, resolving a class id or invoking the
\* object mapper.
C8_LoadAnyStopsOnInvalidHeader ==
    (api = "LoadAny" /\ validateResult.set /\ ~validateResult.ok) =>
        /\ pc = "done"
        /\ result = Failure(validateResult.err)
        /\ className = ""
        /\ ids = <<>>
        /\ anyData = NoValue
        /\ mapperCalls = 0

\* C9: LoadAnyObjectFromStream resolves the target type from the header's
\* ClassName alone: when the by-name lookup yields ids, it constructs and
\* loads an instance of the first id of the returned list; when it yields
\* none, it returns "Can't find serialize context for class <name>" without
\* constructing an instance or invoking the mapper.
C9_LoadAnyUsesFirstId ==
    (api = "LoadAny" /\ className # "") =>
        LET candidates == {id \in {"idA", "idB", "idC"} :
                              ToLower(ClassName(id)) = ToLower(className)}
        IN  /\ IsString(jsonDocument.ClassName) => className = jsonDocument.ClassName.s
            /\ {ids[i] : i \in DOMAIN ids} = candidates
            /\ IF candidates # {}
               THEN /\ classId = ids[1]
                    /\ anyData = ids[1]
                    /\ pc = "invoke" => mapperCalls = 0
                    /\ pc \in {"mapper", "cb_append", "cb_delegate", "cb_return",
                               "decide", "done"} => mapperCalls = 1
                    /\ pc = "done" /\ result.ok => result.value = ids[1]
               ELSE /\ pc = "done"
                    /\ result = Failure(<<"Can't find serialize context for class ",
                                          className>>)
                    /\ classId = NoId
                    /\ anyData = NoValue
                    /\ mapperCalls = 0

C9_Witness ==
    /\ api = "LoadAny"
    /\ pc = "done"
    /\ Len(ids) = 2
    /\ ids[1] = "idB"
    /\ jsonDocument.ClassName = Str("foo")
    /\ mapperCalls = 1
    /\ result = Success("idB")

\* C10: LoadJson(stream) on a stream whose reported length exceeds
\* 1024*1024 returns the too-large failure without reading the stream and
\* without invoking the parser; a length of exactly 1024*1024 passes the
\* guard.
C10_SizeGuard ==
    parseResult.set =>
        /\ stream.length > 1024 * 1024 =>
              /\ parseResult = Failure(<<"Data is too large.">>)
              /\ streamReads = 0
              /\ parserCalls = 0
              /\ pc = "done"
              /\ result = Failure(<<"Data is too large.">>)
        /\ stream.length = 1024 * 1024 =>
              /\ parseResult.ok \/ parseResult.err # <<"Data is too large.">>
              /\ streamReads = 1

C10_Witness ==
    /\ stream.length = 1024 * 1024 + 1
    /\ pc = "done"
    /\ result = Failure(<<"Data is too large.">>)
    /\ streamReads = 0

\* C11: LoadJson(stream) on a stream whose Read returns a byte count other
\* than the reported length returns the read-incomplete failure, a text
\* distinct from the too-large and the parse-error texts, and the parser is
\* not invoked on the partial buffer.
C11_ShortReadFails ==
    (parseResult.set /\ stream.length <= 1024 * 1024
        /\ stream.bytesRead # stream.length) =>
        /\ parseResult = Failure(<<"Cannot to read input stream.">>)
        /\ parseResult.err # TooLargeError
        /\ parseResult.err # ParseError
        /\ streamReads = 1
        /\ parserCalls = 0
        /\ pc = "done"
        /\ result = Failure(<<"Cannot to read input stream.">>)

C11_Witness ==
    /\ pc = "done"
    /\ stream.length = 1024 * 1024
    /\ stream.bytesRead = 1024 * 1024 - 1
    /\ ~stream.text.malformed
    /\ result = Failure(<<"Cannot to read input stream.">>)

\* C15 (load side): a load whose requested class id is not registered ends
\* with a failure result, the object mapper is not invoked, and the result
\* of the failed lookup is never used.
C15_UnregisteredClassFails ==
    (api = "LoadObject" /\ classId \notin {"idA", "idB", "idC"}
        /\ validateResult.set /\ validateResult.ok /\ pc # "resolve") =>
        /\ pc = "done"
        /\ result.set /\ ~result.ok
        /\ ~HasText(result.err, Garbage)
        /\ mapperCalls = 0

\* C20: header validation treats ClassData as optional: with a valid Type
\* and a string ClassName the document passes when ClassData is absent or an
\* object, and fails with "ClassData should be an object" exactly when
\* ClassData is present and is a scalar, an array or null.
C20_ClassDataOptional ==
    (validateResult.set /\ ~TypeCheckFails(jsonDocument)
        /\ ~ClassNameCheckFails(jsonDocument)) =>
        LET kind == jsonDocument.ClassData.kind
        IN  /\ kind \in {"absent", "object"} => validateResult = Success(NoValue)
            /\ kind \in {"number", "array", "null"} =>
                  validateResult = Failure(<<"ClassData should be an object">>)
            /\ validateResult.ok <=> kind \in {"absent", "object"}

C20_Witness ==
    /\ validateResult.set /\ validateResult.ok
    /\ jsonDocument.Type = Str("jsonserialization")
    /\ jsonDocument.ClassData = Absent


(***************************************************************************)
(* The save path and the round trip (SpecSave)                             *)
(***************************************************************************)
LoadReturned == pc \in {"done", "crash"}
RoundTripRan == saveApi = "SaveToStream" /\ LoadReturned

\* C12: saving O with no default object and loading the written stream into
\* an instance of the same type succeeds and yields an object equal to O
\* field for field; stated for saves that returned success.
C12_RoundTrip ==
    (RoundTripRan /\ defaultObject = NoObject) =>
        /\ pc = "done"
        /\ result.ok
        /\ objectToLoad = object
        /\ mapperCalls = 1

\* C13: saving O with a default object D and loading the result into a
\* fresh default-constructed instance yields an object equal to O; the load
\* succeeds and the DefaultsUsed and PartialDefaults events of the omitted
\* fields add nothing to the diagnostics.  Stated for saves that returned
\* success and a D equal to a default-constructed instance.
C13_DefaultDiffingRoundTrip ==
    (/\ RoundTripRan
     /\ defaultObject = TypeDefault
     /\ objectBefore = TypeDefault) =>
        /\ pc = "done"
        /\ result.ok
        /\ objectToLoad = object
        /\ deserializeErrors = <<>>
        /\ nEvents = Len(AbsentFields(payload))
        /\ mapperResult.outcome =
              (IF object = TypeDefault THEN "DefaultsUsed"
               ELSE IF \E f \in FieldNames : object[f] = TypeDefault[f]
                    THEN "PartialDefaults" ELSE "Success")

\* C14: every document written by a successful save has exactly the members
\* Type = "JsonSerialization", Version = 1, ClassName = the registered name
\* of classId, ClassData = the mapper's payload, in that order, and so
\* passes ValidateJsonClassHeader and the class-name check for that classId.
C14_EnvelopeShape ==
    (spc = "done" /\ sResult.ok) =>
        LET members == MembersOf(written)
        IN  /\ sClassId \in RegisteredIds
            /\ written = DocumentText(members)
            /\ MemberNames(members) =
                  <<FileTypeTag, VersionTag, ClassNameTag, ClassDataTag>>
            /\ members[1].value = Str(FileType)
            /\ members[2].value = Number("1")
            /\ members[3].value = Str(ClassName(sClassId))
            /\ members[4].value = serializedObject
            /\ ValidateJsonClassHeader(HeaderOf(members)).ok
            /\ azstricmp(FindClassData(sClassId).m_name,
                         FindMember(HeaderOf(members), ClassNameTag).s) = 0

\* C16: a save on a stream that cannot be written returns "The GenericStream
\* can't be written to" as its first step: the serialize context is not
\* resolved, the mapper is not invoked, nothing is written, and the call
\* does not go on after the failure.
C16_UnwritableStreamFailsFirst ==
    (saveApi # "none" /\ ~canWrite /\ spc # "canwrite") =>
        /\ spc = "done"
        /\ sResult = Failure(CantWriteError)
        /\ contextQueries = 0
        /\ storeCalls = 0
        /\ sDocument = <<>>
        /\ written = <<>>
        /\ pc = "idle"

C16_Witness ==
    /\ saveApi = "SaveToStream"
    /\ ~canWrite
    /\ spc = "done"
    /\ sResult = Failure(CantWriteError)
    /\ sSettings.serializeContext

\* C17 as stated: SaveObjectToFileByType returns success only if the file
\* was opened and the entire serialized buffer was written to it; an open
\* failure, a failed write and a short write each surface as a failure.
C17_FileSaveSuccessMeansWritten ==
    (fileApi = "SaveToFile" /\ fpc = "returned" /\ fileResult.ok) =>
        /\ handle = "closed"
        /\ fileContent = "whole"

(***************************************************************************)
(* File handles (SpecFile)                                                 *)
(***************************************************************************)
\* C18: every file stream opened by LoadJson(filePath), LoadAnyObjectFromFile
\* or SaveObjectToFileByType is closed by the time the call returns, on the
\* success path and on every error path; a handle is open only while the
\* call that opened it is still running.
C18_HandleClosedOnReturn ==
    /\ fpc = "returned" => (handle # "open" /\ fileResult.set)
    /\ handle = "open" => fpc \in {"inner", "write", "exit"}
    /\ (fpc = "returned" /\ handle = "unopened") => ~fileResult.ok

C18_Witness ==
    /\ fileApi = "LoadAnyFile"
    /\ fpc = "returned"
    /\ handle = "closed"
    /\ mapperCalls = 1
    /\ ~fileResult.ok
    /\ Len(fileResult.err) > 0

(***************************************************************************)
(* Concurrent load calls (SpecConc)                                        *)
(***************************************************************************)
\* C19: two load calls interleaved event by event share no mutable state:
\* the buffer of each call holds exactly the diagnostics of its own events,
\* never a diagnostic of the other call, and the result of each call is the
\* verdict on its own mapper result and its own diagnostics.
C19_CallsShareNoState ==
    \A c \in CallIds :
       /\ calls[c].pc # "prepare" =>
             /\ calls[c].loadSettings.installed
             /\ calls[c].loadSettings.reporting = calls[c].settings.reporting
       /\ calls[c].deserializeErrors = calls[c].own
       /\ \A i \in DOMAIN calls[c].deserializeErrors :
             calls[c].deserializeErrors[i] # ConcTarget(OtherCall(c))
       /\ calls[c].pc = "done" =>
             calls[c].result = LoadVerdict(calls[c].mapperResult, calls[c].own, NoValue)

C19_Witness ==
    /\ calls[1].pc = "done"
    /\ calls[2].pc = "decide"
    /\ calls[1].result.ok
    /\ calls[1].nEvents = 1
    /\ calls[2].mapperResult.outcome = "Success"
    /\ calls[2].own # <<>>

(***************************************************************************)
(* ParseJson (SpecParse)                                                   *)
(***************************************************************************)
NewlinesBefore(text, e) ==
    Cardinality({i \in 0..(e - 1) : i < Len(text) /\ text[i + 1] = NewLine})

\* C21: when ParseJson fails at byte offset e, the reported line number is
\* 1 plus the number of newline characters before offset e, and the counting
\* loop terminates for every input.
C21_LineNumberOfParseError ==
    /\ []((ppc = "done" /\ hasParseError) =>
             /\ ~pResult.ok
             /\ lineNumber = 1 + NewlinesBefore(jsonText, errorOffset))
    /\ <>(ppc = "done")

C21_Witness ==
    /\ ppc = "done"
    /\ hasParseError
    /\ jsonText = <<NewLine, "{", NewLine>>
    /\ errorOffset = 3
    /\ lineNumber = 3

(***************************************************************************)
(* ReportCommonWarnings (SpecWarn)                                         *)
(***************************************************************************)
HasCommentSegment(segs) ==
    \E i \in DOMAIN segs : Len(segs[i]) > 0 /\ segs[i][1] = "#"

\* C22: ReportCommonWarnings returns the result it was given unchanged; a
\* Skipped event whose path has a segment prefixed with '#' emits no
\* warning, any other Skipped event emits the skipped-field warning, and
\* every event whose processing is not Completed or whose outcome is
\* Unsupported or worse emits a warning.
C22_CommonWarnings ==
    wpc = "done" =>
        /\ wReturned = wResult
        /\ wResult.outcome = "Skipped" =>
              wWarnings = (IF HasCommentSegment(wPath) THEN <<>>
                           ELSE <<SkippedWarning(wPath)>>)
        /\ (/\ wResult.outcome # "Skipped"
            /\ \/ wResult.processing # "Completed"
               \/ OutcomeRank(wResult.outcome) >= OutcomeRank("Unsupported")) =>
              Len(wWarnings) = 1 /\ wWarnings[1].kind = "result"

C22_Witness ==
    /\ wpc = "done"
    /\ wResult.outcome = "Skipped"
    /\ wPath = <<<<"a", "#">>, <<"#", "a">>>>
    /\ wWarnings = <<>>

(***************************************************************************)
(* The load call again (Spec)                                              *)
(***************************************************************************)
\* C23 as stated: whenever a load on a header-valid document invokes the
\* object mapper, the payload it passes is a ClassData member that exists in
\* the parsed document, and no value of a missing member is read.
C23_PayloadIsExistingMember ==
    (validateResult.set /\ validateResult.ok /\ pc \notin {"resolve", "invoke"}
        /\ (api = "LoadObject" => classId \in RegisteredIds)
        /\ (className # "" \/ Len(ids) > 0) /\ result = NoResult) =>
        /\ FindMember(jsonDocument, ClassDataTag) # MemberEnd
        /\ pc # "crash"
        /\ payload = FindMember(jsonDocument, ClassDataTag)

\* C24 as stated: every failure result of a load call carries a non-empty
\* error text, for every sequence of reporting events and every final
\* mapper outcome.
C24_FailureHasText ==
    (pc = "done" /\ result.set /\ ~result.ok) => result.err # <<>>

\* C26: the decision to record a diagnostic is taken on the outcome the
\* mapper reported, before the caller's callback runs: a callback that turns
\* a non-success result into a success changes what the mapper gets back but
\* not the recorded diagnostic, so the load still fails; a callback that
\* downgrades a success-category event adds nothing to the buffer.
C26_DecisionBeforeCallerCallback ==
    /\ pc = "cb_append" =>
          Len(deserializeErrors) =
             4 * (nRecordable - (IF IsRecordable(event) THEN 1 ELSE 0))
    /\ pc \notin {"cb_append", "crash"} =>
          Len(deserializeErrors) = 4 * nRecordable
    \* a call that died while it formatted the target recorded nothing
    /\ pc = "crash" =>
          Len(deserializeErrors) \in {4 * nRecordable, 4 * (nRecordable - 1)}
    /\ (pc = "cb_delegate" /\ loadSettings.reporting # "None") =>
          userCalls = coreSteps - 1
    /\ (pc = "cb_return" /\ loadSettings.reporting = "ToSuccess") =>
          returned.outcome = "Success"
    /\ (pc = "done" /\ MapperHasReturned /\ nRecordable > 0) => ~result.ok
    /\ nRecordable = 0 => deserializeErrors = <<>>

C26_Witness ==
    /\ pc = "done"
    /\ loadSettings.reporting = "ToSuccess"
    /\ userCalls = 1
    /\ nRecordable = 1
    /\ mapperResult.outcome = "Success"
    /\ ~result.ok
    /\ Len(result.err) = 4

(***************************************************************************)
(* The save call again (SpecSave)                                          *)
(***************************************************************************)
\* C27: the save writes to the stream only after Store has finished with
\* processing Completed: any other processing status returns the failure
\* text of the result and leaves the stream as it was; with Completed the
\* envelope is written whatever the outcome category is: the call returns
\* success and the stream holds the whole text of the four-member document.
\* Stated for payloads the writer takes.
C27_WritesOnlyAfterCompletedStore ==
    /\ written # <<>> => (storeCalls = 1 /\ storeResult.processing = "Completed")
    /\ (storeResult # NoCode /\ storeResult.processing # "Completed") =>
          /\ spc = "done"
          /\ sResult = Failure(StoreError(storeResult))
          /\ written = <<>>
    /\ (/\ spc = "done"
        /\ storeResult.processing = "Completed"
        /\ ~WriterRefuses(serializedObject)) =>
          /\ Len(sDocument) = 4
          /\ sResult.ok
          /\ written = DocumentText(sDocument)

\* C28: SaveObjectToFileByType serializes into a buffer first and opens the
\* destination file only after the serialization succeeded: when it fails
\* the file is neither created, opened nor emptied, and the error of the
\* serialization is returned unchanged.
C28_FileOpenedOnlyAfterSerialization ==
    fileApi = "SaveToFile" =>
        /\ (handle # "unopened" \/ fileContent # "untouched") =>
              (spc = "done" /\ sResult.ok)
        /\ (fpc = "returned" /\ ~sResult.ok) =>
              /\ fileResult = sResult
              /\ handle = "unopened"
              /\ fileContent = "untouched"

C28_Witness ==
    /\ fileApi = "SaveToFile"
    /\ fpc = "returned"
    /\ storeResult = ResultCode("Halted", "Invalid")
    /\ fileResult = Failure(StoreError(storeResult))
    /\ handle = "unopened"
    /\ fileContent = "untouched"

(***************************************************************************)
(* The stages of LoadObjectFromStreamByType (SpecStages)                   *)
(***************************************************************************)
\* C25: LoadObjectFromStreamByType runs settings preparation, stream read,
\* parse, header validation, class-name check and object mapper in that
\* order and stops at the first failing stage: a call that fails before the
\* mapper never invokes it and leaves the target object unchanged.
C25_StagesInOrder ==
    /\ streamReads > 0 => loadSettings.installed
    /\ parserCalls <= streamReads
    /\ validateResult.set => (parserCalls = 1 /\ parseResult.ok)
    /\ className # "" => validateResult.ok
    /\ mapperCalls <= 1
    /\ mapperCalls = 1 =>
          /\ validateResult.ok
          /\ IsObjectRoot(jsonDocument) =>
                /\ ~TypeCheckFails(jsonDocument)
                /\ ~ClassNameCheckFails(jsonDocument)
                /\ ~ClassDataCheckFails(jsonDocument)
          /\ classId \in RegisteredIds => azstricmp(ClassName(classId), className) = 0
    /\ objectToLoad # objectBefore => mapperCalls = 1
    /\ (pc = "done" /\ ~result.ok /\ ~MapperHasReturned) =>
          /\ mapperCalls = 0
          /\ nEvents = 0
          /\ objectToLoad = objectBefore

C25_Witness ==
    /\ pc = "done"
    /\ classId = "idC"
    /\ className = "Foo"
    /\ result = Failure(ClassMismatchError("Bar", "Foo"))
    /\ mapperCalls = 0
    /\ objectToLoad = objectBefore

(***************************************************************************)
(* AssetRequestHandler::InvokeHandler (SpecInvoke)                         *)
(***************************************************************************)
\* The last call handled a message of a type the handler answers itself,
\* and the message is of the class of that type
AnsweredItself ==
    /\ hMessage.type \in AnsweredTypes
    /\ hMessage.castOk

\* C29: a request of a type InvokeHandler answers itself produces exactly
\* one SendResponse, on the connection and with the serial of the request,
\* whether its asset id is valid, a path is given, or neither.
C29_ExactlyOneResponse ==
    AnsweredItself =>
        /\ Len(hResponses) = 1
        /\ hResponses[1].key = hKey

(***************************************************************************)
(* Asset status requests of AssetRequestHandler (SpecPending)              *)
(***************************************************************************)
CompletionEvents == {"OnCompileGroupCreated", "OnCompileGroupFinished",
                     "OnRequestAssetExistsResponse"}

\* The requests that ProcessAssetRequest has received so far
Instances == 1..received

\* No request has been sent more than one asset status response
AtMostOneStatus == \A i \in Instances : Len(statusSent[i]) <= 1

\* The lines stored under an id
LinesOf(map, id) == {map[id][i] : i \in DOMAIN map[id]}

\* A step sends a response for a pending request exactly when it erases
\* the entry of that request
SentWithErase ==
    \A id \in NetworkRequestIds :
        \A line \in LinesOf(pendingAssetRequests, id) :
            Len(statusSent'[line.instance]) > Len(statusSent[line.instance])
                <=> /\ line \notin LinesOf(pendingAssetRequests', id)
                    /\ Len(pendingAssetRequests'[id]) <
                          Len(pendingAssetRequests[id])

\* An event for an id without an entry sends nothing, emits nothing and
\* leaves the map alone
StaleEventIgnored ==
    (/\ hEvent'.kind \in CompletionEvents
     /\ pendingAssetRequests[hEvent'.id] = <<>>)
        => /\ UNCHANGED <<pendingAssetRequests, statusSent, received>>
           /\ hSignal' = "none"

\* C30: under any interleaving of ProcessAssetRequest, OnCompileGroupCreated,
\* OnCompileGroupFinished and OnRequestAssetExistsResponse, a request put
\* into the pending map is sent at most one asset status response, its entry
\* is erased in the step that sends the response, and an event for an id
\* that is not, or no longer, pending sends nothing and changes nothing.
C30_PendingRequestAnsweredOnce ==
    /\ []AtMostOneStatus
    /\ [][SentWithErase /\ StaleEventIgnored]_vars

\* The only request received was inserted and answered, its entry is gone,
\* and a completion event arrived after the answer
C30_Witness ==
    /\ received = 1
    /\ statusSent = <<(<<"Compiled">>)>>
    /\ \A id \in NetworkRequestIds : pendingAssetRequests[id] = <<>>
    /\ hEvent.kind = "OnCompileGroupFinished"

====
